---- MODULE Spec2Model ----
(***************************************************************************)
(* The tabular data engine of src/utils/dataProcessing.ts: ingestion with  *)
(* header recovery, the column analyzer, the transformation pipeline, the  *)
(* join engine and the structural reshaper, with the DataGrid handlers     *)
(* that replace the active dataset.                                        *)
(*                                                                         *)
(* JavaScript values are records [t, n, s]; a JavaScript string is the     *)
(* sequence of its characters, so that concatenation, split, upper-casing  *)
(* and String(number) are computed rather than assumed. A row object is    *)
(* the sequence of its own properties in the engine's enumeration order    *)
(* (array-index keys ascending, then the other keys in insertion order).   *)
(***************************************************************************)
EXTENDS Integers, Sequences, FiniteSets, TLC

VARIABLES
    dataset,    \* the Dataset value that flows through the pipeline
    loaded,     \* an ingestion has delivered a dataset
    last,       \* the last operation: its name, arguments, input and output
    ops,        \* number of operations applied since the ingestion
    uuid,       \* the next identity crypto.randomUUID() hands out
    lenientDates, \* Date.parse accepts text outside the Date Time String Format
    ingest,     \* the DataIngest component and the parse it awaits
    app,        \* the App component: its datasets, activeDatasetId and view
    heap        \* the objects of a run that tracks them: the cell at each address

vars == <<dataset, loaded, last, ops, uuid, lenientDates, ingest, app, heap>>

(***************************************************************************)
(* Bounds of the model.                                                    *)
(***************************************************************************)
\* number of operations applied after an ingestion
MaxOps == 2
\* number of data lines of an ingested file
MaxLines == 2
\* largest magnitude of a row index offered to crop and promote-row-to-header
MaxIndex == 2
\* number of rows of a dataset handed to the column analyzer on its own
MaxValues == 4
\* number of data lines of a file whose columns are correlated
MaxRows == 3

(***************************************************************************)
(* Sequence helpers.                                                       *)
(***************************************************************************)
Range(seq) == {seq[i] : i \in 1..Len(seq)}

\* Array.prototype.map
Map(seq, F(_)) == [i \in 1..Len(seq) |-> F(seq[i])]

\* Array.prototype.map with the 0-based index
MapIdx(seq, F(_, _)) == [i \in 1..Len(seq) |-> F(seq[i], i - 1)]

\* Array.prototype.filter
Filter(seq, P(_)) == SelectSeq(seq, P)

Min2(a, b) == IF a < b THEN a ELSE b

Max2(a, b) == IF a > b THEN a ELSE b

\* Array.prototype.slice(start, end) of the ECMAScript specification:
\* negative indices count from the end, both are clamped to [0, length].
Slice(seq, start, end) ==
    LET len == Len(seq)
        k == IF start < 0 THEN Max2(len + start, 0) ELSE Min2(start, len)
        final == IF end < 0 THEN Max2(len + end, 0) ELSE Min2(end, len)
    IN  IF final <= k THEN <<>> ELSE SubSeq(seq, k + 1, final)

\* Array.prototype.slice(start) with no end
SliceFrom(seq, start) == Slice(seq, start, Len(seq))

(***************************************************************************)
(* Strings: sequences of one-character strings.                            *)
(***************************************************************************)
Digits == <<"0", "1", "2", "3", "4", "5", "6", "7", "8", "9">>

IsDigit(c) == c \in Range(Digits)

DigitValue(c) == (CHOOSE i \in 1..10 : Digits[i] = c) - 1

RECURSIVE NatToString(_)
NatToString(n) ==
    IF n < 10 THEN <<Digits[n + 1]>>
    ELSE NatToString(n \div 10) \o <<Digits[(n % 10) + 1]>>

\* Number.prototype.toString for an integer
IntToString(n) == IF n < 0 THEN <<"-">> \o NatToString(-n) ELSE NatToString(n)

RECURSIVE DigitsToNat(_)
DigitsToNat(s) ==
    IF s = <<>> THEN 0
    ELSE DigitsToNat(SubSeq(s, 1, Len(s) - 1)) * 10 + DigitValue(s[Len(s)])

AllDigits(s) == s # <<>> /\ \A i \in 1..Len(s) : IsDigit(s[i])

\* the text is an optionally signed run of decimal digits
IsIntegerText(s) ==
    \/ AllDigits(s)
    \/ Len(s) >= 2 /\ s[1] = "-" /\ AllDigits(Tail(s))

IntegerOfText(s) == IF s[1] = "-" THEN -DigitsToNat(Tail(s)) ELSE DigitsToNat(s)

IsSpace(c) == c = " "

RECURSIVE TrimStart(_)
TrimStart(s) == IF s # <<>> /\ IsSpace(s[1]) THEN TrimStart(Tail(s)) ELSE s

RECURSIVE TrimEnd(_)
TrimEnd(s) ==
    IF s # <<>> /\ IsSpace(s[Len(s)]) THEN TrimEnd(SubSeq(s, 1, Len(s) - 1)) ELSE s

\* String.prototype.trim
Trim(s) == TrimEnd(TrimStart(s))

StartsWith(s, p) == Len(p) <= Len(s) /\ SubSeq(s, 1, Len(p)) = p

\* String.prototype.split(separator) for a string separator
RECURSIVE SplitFrom(_, _, _)
SplitFrom(s, sep, cur) ==
    IF s = <<>> THEN <<cur>>
    ELSE IF StartsWith(s, sep)
         THEN <<cur>> \o SplitFrom(SubSeq(s, Len(sep) + 1, Len(s)), sep, <<>>)
         ELSE SplitFrom(Tail(s), sep, Append(cur, s[1]))

Split(s, sep) ==
    IF sep = <<>> THEN [i \in 1..Len(s) |-> <<s[i]>>]
    ELSE SplitFrom(s, sep, <<>>)

LowerLetters ==
    <<"a", "b", "c", "d", "e", "f", "g", "h", "i", "j", "k", "l", "m",
      "n", "o", "p", "q", "r", "s", "t", "u", "v", "w", "x", "y", "z">>

UpperLetters ==
    <<"A", "B", "C", "D", "E", "F", "G", "H", "I", "J", "K", "L", "M",
      "N", "O", "P", "Q", "R", "S", "T", "U", "V", "W", "X", "Y", "Z">>

UpperChar(c) ==
    IF c \in Range(LowerLetters)
    THEN UpperLetters[CHOOSE i \in 1..26 : LowerLetters[i] = c]
    ELSE c

\* String.prototype.toUpperCase
ToUpperCase(s) == [i \in 1..Len(s) |-> UpperChar(s[i])]

\* Array.prototype.join('')
RECURSIVE JoinEmpty(_)
JoinEmpty(parts) == IF parts = <<>> THEN <<>> ELSE Head(parts) \o JoinEmpty(Tail(parts))

(***************************************************************************)
(* JavaScript values.                                                      *)
(***************************************************************************)
Num(n) == [t |-> "number", n |-> n, s |-> <<>>]

Str(s) == [t |-> "string", n |-> 0, s |-> s]

Bool(b) == [t |-> "boolean", n |-> IF b THEN 1 ELSE 0, s |-> <<>>]

Null == [t |-> "null", n |-> 0, s |-> <<>>]

Undefined == [t |-> "undefined", n |-> 0, s |-> <<>>]

NaN == [t |-> "NaN", n |-> 0, s |-> <<>>]

NegInfinity == [t |-> "-Infinity", n |-> 0, s |-> <<>>]

\* the real number ln(n) for an integer n >= 2, kept symbolic
Ln(n) == [t |-> "ln", n |-> n, s |-> <<>>]

\* the value is a number the model holds exactly (not a symbolic ln)
IsExact(v) == v.t # "ln"

\* typeof v
TypeOf(v) ==
    CASE v.t \in {"number", "NaN", "ln", "-Infinity"} -> "number"
      [] v.t = "string" -> "string"
      [] v.t = "boolean" -> "boolean"
      [] v.t = "null" -> "object"
      [] OTHER -> "undefined"

\* a === b
StrictEq(a, b) == a.t # "NaN" /\ a = b

\* String(v)
String(v) ==
    CASE v.t = "number" -> IntToString(v.n)
      [] v.t = "string" -> v.s
      [] v.t = "boolean" -> IF v.n = 1 THEN <<"t", "r", "u", "e">>
                                       ELSE <<"f", "a", "l", "s", "e">>
      [] v.t = "null" -> <<"n", "u", "l", "l">>
      [] v.t = "undefined" -> <<"u", "n", "d", "e", "f", "i", "n", "e", "d">>
      [] v.t = "NaN" -> <<"N", "a", "N">>
      [] v.t = "-Infinity" -> <<"-", "I", "n", "f", "i", "n", "i", "t", "y">>
      [] OTHER -> <<"l", "n", "(">> \o IntToString(v.n) \o <<")">>

\* ToBoolean(v)
Truthy(v) ==
    CASE v.t = "number" -> v.n # 0
      [] v.t = "string" -> v.s # <<>>
      [] v.t = "boolean" -> v.n = 1
      [] v.t \in {"ln", "-Infinity"} -> TRUE
      [] OTHER -> FALSE

\* a || b
OrElse(a, b) == IF Truthy(a) THEN a ELSE b

\* Number(v)
Number(v) ==
    CASE v.t \in {"number", "NaN", "ln", "-Infinity"} -> v
      [] v.t = "string" ->
            LET s == Trim(v.s)
            IN  IF s = <<>> THEN Num(0)
                ELSE IF IsIntegerText(s) THEN Num(IntegerOfText(s))
                ELSE IF s = String(NegInfinity) THEN NegInfinity
                ELSE NaN
      [] v.t = "boolean" -> Num(v.n)
      [] v.t = "null" -> Num(0)
      [] OTHER -> NaN

\* Math.log(v) of a number
MathLog(v) ==
    CASE v.t = "number" /\ v.n = 0 -> NegInfinity
      [] v.t = "number" /\ v.n = 1 -> Num(0)
      [] v.t = "number" /\ v.n >= 2 -> Ln(v.n)
      [] OTHER -> NaN

\* a + b of two exact numbers
Plus(a, b) ==
    CASE a.t = "number" /\ b.t = "number" -> Num(a.n + b.n)
      [] a.t = "NaN" \/ b.t = "NaN" -> NaN
      [] OTHER -> NegInfinity

(***************************************************************************)
(* Row objects: the sequence of own properties [k, v] in enumeration order.*)
(***************************************************************************)
ID == <<"i", "d">>

\* the key is a canonical array index ("0", "7", "12"), which an object
\* enumerates before its other keys, in ascending numeric order
IsArrayIndex(k) == AllDigits(k) /\ (Len(k) = 1 \/ k[1] # "0")

\* row.hasOwnProperty(k)
Has(row, k) == \E i \in 1..Len(row) : row[i].k = k

\* row[k]
Get(row, k) ==
    IF Has(row, k) THEN row[CHOOSE i \in 1..Len(row) : row[i].k = k].v ELSE Undefined

\* row[k] = v
Put(row, k, v) ==
    IF Has(row, k)
    THEN [i \in 1..Len(row) |-> IF row[i].k = k THEN [k |-> k, v |-> v] ELSE row[i]]
    ELSE IF IsArrayIndex(k)
         THEN LET before(e) == IsArrayIndex(e.k) /\ DigitsToNat(e.k) < DigitsToNat(k)
                  after(e) == ~before(e)
              IN  Filter(row, before) \o <<[k |-> k, v |-> v]>> \o Filter(row, after)
         ELSE Append(row, [k |-> k, v |-> v])

\* delete row[k]
Delete(row, k) == LET keep(e) == e.k # k IN Filter(row, keep)

\* Object.keys(row)
Keys(row) == [i \in 1..Len(row) |-> row[i].k]

\* Object.values(row)
Values(row) == [i \in 1..Len(row) |-> row[i].v]

\* { ...a, ...b }: the properties of b put onto a copy of a, in b's order
RECURSIVE Assign(_, _)
Assign(a, b) == IF b = <<>> THEN a ELSE Assign(Put(a, Head(b).k, Head(b).v), Tail(b))

\* { id: i }
NewRow(i) == Put(<<>>, ID, i)

\* the dataset before any ingestion, and what a call that throws returns
NoDataset ==
    [id |-> 0, name |-> <<>>, rows |-> <<>>, columns |-> <<>>,
     stats |-> [originalRows |-> 0, totalCells |-> 0, imputedCells |-> 0, droppedRows |-> 0]]

\* DataIngest as mounted: useState('upload'), useState(0), useState(null),
\* no parse under way. Kept beside the component's state, for one handleFile:
\* shown, the values its progress state took; reported, the values onProgress
\* was given; settled, how often its promise settled; outcome and resolved,
\* how it settled and with which Dataset
IdleIngest ==
    [step |-> "upload", progress |-> 0, tempDataset |-> NoDataset,
     pc |-> "idle", file |-> [name |-> <<>>, lines |-> <<>>, features |-> <<>>, valid |-> TRUE],
     cursor |-> 0, rows |-> <<>>, shown |-> <<>>, reported |-> <<>>,
     settled |-> 0, outcome |-> "none", resolved |-> NoDataset]

\* App as mounted: useState([]), useState(null), useState(ViewState.UPLOAD);
\* the null of activeDatasetId is 0, an identity randomUUID never hands out
MountedApp == [datasets |-> <<>>, activeDatasetId |-> 0, view |-> "UPLOAD"]

\* datasets.find(d => d.id === activeDatasetId) as a list of zero or one
\* Dataset: find returns the first match
FindActive(a) ==
    LET isActive(d) == d.id = a.activeDatasetId
        found == SelectSeq(a.datasets, isActive)
    IN  IF found = <<>> THEN <<>> ELSE <<Head(found)>>

\* setDatasets(prev => [...prev, data]); setActiveDatasetId(data.id);
\* setView(ViewState.WORKSPACE)
handleDataLoaded(a, data) ==
    [datasets |-> Append(a.datasets, data), activeDatasetId |-> data.id,
     view |-> "WORKSPACE"]

\* an updateActiveDataset that adds the updated Dataset to the list
updateActiveDatasetAppending(a, updated) ==
    [a EXCEPT !.datasets = Append(@, updated)]

\* setDatasets(prev => prev.map(d => d.id === updated.id ? updated : d))
updateActiveDataset(a, updated) ==
    [a EXCEPT !.datasets = [i \in 1..Len(@) |->
                               IF @[i].id = updated.id THEN updated ELSE @[i]]]

VIEW_SUFFIX == <<" ", "(", "V", "i", "e", "w", ")">>

\* { ...activeDataset, id: crypto.randomUUID(), name: `${name} (View)`,
\*   parentId: activeDataset.id }, appended and made the active one
createSnapshot(a, id) ==
    IF FindActive(a) = <<>> THEN a
    ELSE LET activeDataset == Head(FindActive(a))
             snapshot == [id |-> id, name |-> activeDataset.name \o VIEW_SUFFIX,
                          rows |-> activeDataset.rows,
                          columns |-> activeDataset.columns,
                          stats |-> activeDataset.stats,
                          parentId |-> activeDataset.id]
         IN  [a EXCEPT !.datasets = Append(@, snapshot),
                       !.activeDatasetId = snapshot.id]

(***************************************************************************)
(* Column analyzer.                                                        *)
(***************************************************************************)
\* v !== null && v !== undefined && v !== ''
IsPresent(v) == v # Null /\ v # Undefined /\ v # Str(<<>>)

\* the text has a decimal digit
HasDigit(s) == \E i \in 1..Len(s) : IsDigit(s[i])

\* the text is a date-only form of the Date Time String Format: YYYY
IsDateTimeFormat(s) == Len(s) = 4 /\ AllDigits(s)

\* !isNaN(Date.parse(String(v))): text in the Date Time String Format is a
\* date; text without a digit is unrecognizable and gives NaN; any other text
\* is left to the heuristics of the engine that runs the page
ParsesAsDate(v) ==
    LET s == String(v)
    IN  IF IsDateTimeFormat(s) THEN TRUE
        ELSE IF ~HasDigit(s) THEN FALSE
        ELSE lenientDates

RECURSIVE Gcd(_, _)
Gcd(a, b) == IF b = 0 THEN a ELSE Gcd(b, a % b)

Abs(n) == IF n < 0 THEN -n ELSE n

\* a / b for integers a and b > 0, as the fraction in lowest terms (the double
\* the division gives is the nearest to it)
Ratio(a, b) ==
    LET g == Gcd(Abs(a), b)
    IN  [t |-> "ratio", num |-> a \div g, den |-> b \div g]

RECURSIVE Sum(_)
Sum(numbers) == IF numbers = <<>> THEN 0 ELSE Head(numbers).n + Sum(Tail(numbers))

\* Math.min(...numbers), Math.max(...numbers) and the mean of the reduce:
\* evaluated for numbers the model holds as integers, NaN as soon as one of
\* them is NaN, and left as the unevaluated call otherwise
NumberStats(numbers) ==
    IF \A i \in 1..Len(numbers) : numbers[i].t = "number"
    THEN [min |-> Num(CHOOSE m \in {numbers[i].n : i \in 1..Len(numbers)} :
                          \A i \in 1..Len(numbers) : m <= numbers[i].n),
          max |-> Num(CHOOSE m \in {numbers[i].n : i \in 1..Len(numbers)} :
                          \A i \in 1..Len(numbers) : m >= numbers[i].n),
          mean |-> Ratio(Sum(numbers), Len(numbers))]
    ELSE IF \E i \in 1..Len(numbers) : numbers[i].t = "NaN"
    THEN [min |-> NaN, max |-> NaN, mean |-> NaN]
    ELSE [min |-> [t |-> "Math.min", args |-> numbers],
          max |-> [t |-> "Math.max", args |-> numbers],
          mean |-> [t |-> "mean", args |-> numbers]]

\* importanceScore and categories, which no operation of the engine reads,
\* are left out of the record
ColumnOf(rows, key) ==
    LET values == [i \in 1..Len(rows) |-> Get(rows[i], key)]
        nonNull == Filter(values, IsPresent)
        isNumber == Len(nonNull) > 0
                    /\ \A i \in 1..Len(nonNull) : TypeOf(nonNull[i]) = "number"
        isDate == ~isNumber /\ Len(nonNull) > 0
                  /\ \A i \in 1..Len(nonNull) : ParsesAsDate(nonNull[i])
        type == IF isNumber THEN "number" ELSE IF isDate THEN "date" ELSE "string"
        stats == IF type = "number" /\ Len(nonNull) > 0
                 THEN NumberStats(nonNull)
                 ELSE [min |-> Undefined, max |-> Undefined, mean |-> Undefined]
        unique == Cardinality({String(values[i]) : i \in 1..Len(values)})
    IN  [name |-> key, originalName |-> key, type |-> type,
         missingCount |-> Len(values) - Len(nonNull),
         uniqueCount |-> unique,
         min |-> stats.min, max |-> stats.max, mean |-> stats.mean,
         isActive |-> TRUE]

analyzeColumns(rows) ==
    IF Len(rows) = 0 THEN <<>>
    ELSE LET notId(k) == k # ID
             keys == Filter(Keys(rows[1]), notId)
         IN  [i \in 1..Len(keys) |-> ColumnOf(rows, keys[i])]

ColumnNames(d) == [i \in 1..Len(d.columns) |-> d.columns[i].name]

(***************************************************************************)
(* Tabular ingestion: the parser's row stream, then processRawData.        *)
(***************************************************************************)
HeaderScanRows == 20

\* the parser's dynamicTyping of one field text
DynamicTyping(field) ==
    CASE field \in {<<"t", "r", "u", "e">>, <<"T", "R", "U", "E">>} -> Bool(TRUE)
      [] field \in {<<"f", "a", "l", "s", "e">>, <<"F", "A", "L", "S", "E">>} -> Bool(FALSE)
      [] IsIntegerText(Trim(field)) -> Num(IntegerOfText(Trim(field)))
      [] field = <<>> -> Null
      [] OTHER -> Str(field)

\* skipEmptyLines: 'greedy' drops a line whose fields join to blank text
IsEmptyLine(line) == Trim(JoinEmpty(line)) = <<>>

\* the rows that the chunk callbacks accumulate for a file of field texts
ParsedRows(lines) ==
    LET kept(line) == ~IsEmptyLine(line)
        typed(line) == [j \in 1..Len(line) |-> DynamicTyping(line[j])]
    IN  Map(Filter(lines, kept), typed)

\* c !== null && c !== '' && typeof c === 'string'
IsHeaderCell(c) == c # Null /\ c # Str(<<>>) /\ TypeOf(c) = "string"

NonNullCount(row) == Len(Filter(row, IsHeaderCell))

\* the header scan loop, from row i (0-based) with the running best
RECURSIVE ScanHeader(_, _, _, _)
ScanHeader(rawData, i, bestHeaderIndex, maxCols) ==
    IF i >= Min2(HeaderScanRows, Len(rawData)) THEN bestHeaderIndex
    ELSE IF NonNullCount(rawData[i + 1]) > maxCols
         THEN ScanHeader(rawData, i + 1, i, NonNullCount(rawData[i + 1]))
         ELSE ScanHeader(rawData, i + 1, bestHeaderIndex, maxCols)

BestHeaderIndex(rawData) == ScanHeader(rawData, 0, 0, 0)

\* the suffixing of repeated header names
UniqueHeaders(headerRow) ==
    [i \in 1..Len(headerRow) |->
        LET h == headerRow[i]
            count == Cardinality({j \in 1..(i - 1) : headerRow[j] = h})
        IN  IF count = 0 THEN h ELSE h \o <<"_">> \o IntToString(count + 1)]

\* rowArray[index], undefined past the end of a short row
At(rowArray, index) == IF index + 1 <= Len(rowArray) THEN rowArray[index + 1] ELSE Undefined

\* uniqueHeaders.forEach((header, index) => rowObj[header] = rowArray[index])
RECURSIVE FillRow(_, _, _, _)
FillRow(rowObj, uniqueHeaders, rowArray, index) ==
    IF index >= Len(uniqueHeaders) THEN rowObj
    ELSE FillRow(Put(rowObj, uniqueHeaders[index + 1], At(rowArray, index)),
                 uniqueHeaders, rowArray, index + 1)

processRawData(rawData, fileName, id) ==
    IF Len(rawData) = 0
    THEN [id |-> id, name |-> fileName, rows |-> <<>>, columns |-> <<>>,
          stats |-> [originalRows |-> 0, totalCells |-> 0,
                     imputedCells |-> 0, droppedRows |-> 0]]
    ELSE LET bestHeaderIndex == BestHeaderIndex(rawData)
             headerRow == Map(rawData[bestHeaderIndex + 1], String)
             uniqueHeaders == UniqueHeaders(headerRow)
             body == SliceFrom(rawData, bestHeaderIndex + 1)
             rows == [i \in 1..Len(body) |->
                         FillRow(NewRow(Num(i - 1)), uniqueHeaders, body[i], 0)]
             columns == analyzeColumns(rows)
         IN  [id |-> id, name |-> fileName, rows |-> rows, columns |-> columns,
              stats |-> [originalRows |-> Len(rows),
                         totalCells |-> Len(rows) * Len(columns),
                         imputedCells |-> 0,
                         droppedRows |-> bestHeaderIndex]]

\* parseCSV once the parser has completed
parseCSV(lines, fileName, id) == processRawData(ParsedRows(lines), fileName, id)

(***************************************************************************)
(* Geographic ingestion.                                                   *)
(***************************************************************************)
\* a feature is [properties, geometry], geometry one of "none", "Point",
\* "Polygon", "MultiPolygon", with coordinates [lng, lat] for a point
FeatureRow(f, i) ==
    LET row == Assign(NewRow(Num(i)), f.properties)
    IN  CASE f.geometry = "Point" ->
                Put(Put(row, <<"_", "l", "n", "g">>, f.lng),
                    <<"_", "l", "a", "t">>, f.lat)
          [] f.geometry \in {"Polygon", "MultiPolygon"} ->
                Put(row, <<"_", "g", "e", "o", "_", "t", "y", "p", "e">>,
                    Str(IF f.geometry = "Polygon"
                        THEN <<"P", "o", "l", "y", "g", "o", "n">>
                        ELSE <<"M", "u", "l", "t", "i", "P", "o", "l", "y", "g", "o", "n">>))
          [] OTHER -> row

parseGeoJSON(features, fileName, id) ==
    LET rows == MapIdx(features, FeatureRow)
        columns == analyzeColumns(rows)
    IN  [id |-> id, name |-> fileName, rows |-> rows, columns |-> columns,
         stats |-> [originalRows |-> Len(rows),
                    totalCells |-> Len(rows) * Len(columns),
                    imputedCells |-> 0,
                    droppedRows |-> 0]]

(***************************************************************************)
(* Transformation pipeline.                                                *)
(***************************************************************************)
TransformationType ==
    {"split_count", "split_extract", "extract_regex", "to_uppercase",
     "to_lowercase", "math_add", "math_log", "nlp_sentiment", "group_count"}

\* s.split(separator), the separator a value of the params record
SplitBy(s, separator) ==
    IF separator = Undefined THEN <<s>> ELSE Split(s, String(separator))

\* parts[index] for the index value of the params record
PartAt(parts, index) ==
    IF index.t = "number" /\ index.n >= 0 /\ index.n < Len(parts)
    THEN Str(parts[index.n + 1])
    ELSE Undefined

\* the name of the column that the switch sets, '' when no case matches
NewColName(config) ==
    CASE config.type = "split_count" ->
            config.targetCol \o <<"_", "C", "o", "u", "n", "t">>
      [] config.type = "split_extract" ->
            config.targetCol \o <<"_", "P", "a", "r", "t">> \o String(config.params.index)
      [] config.type = "to_uppercase" ->
            config.targetCol \o <<"_", "U", "p", "p", "e", "r">>
      [] config.type = "math_log" ->
            <<"L", "o", "g", "_">> \o config.targetCol
      [] config.type = "math_add" ->
            config.targetCol \o <<"_", "P", "l", "u", "s">>
      [] OTHER -> <<>>

\* the cell that the switch computes for row r
NewCell(r, config) ==
    LET cell == Get(r, config.targetCol)
        text == String(OrElse(cell, Str(<<>>)))
    IN  CASE config.type = "split_count" ->
                Num(Len(SplitBy(text, config.params.delimiter)))
          [] config.type = "split_extract" ->
                OrElse(PartAt(SplitBy(text, config.params.delimiter), config.params.index),
                       Str(<<>>))
          [] config.type = "to_uppercase" -> Str(ToUpperCase(text))
          [] config.type = "math_log" ->
                IF Truthy(cell) THEN MathLog(Number(cell)) ELSE Num(0)
          [] config.type = "math_add" ->
                Plus(OrElse(Number(cell), Num(0)), OrElse(config.params.value, Num(0)))

HandledTypes == {"split_count", "split_extract", "to_uppercase", "math_log", "math_add"}

applyTransformation(d, config) ==
    LET newColName == NewColName(config)
        newRows == IF config.type \in HandledTypes
                   THEN [i \in 1..Len(d.rows) |->
                            Put(d.rows[i], newColName, NewCell(d.rows[i], config))]
                   ELSE d.rows
    IN  [d EXCEPT !.rows = newRows,
                  !.columns = analyzeColumns(newRows),
                  !.stats = [d.stats EXCEPT
                                !.totalCells = Len(newRows) * (Len(d.columns) + 1)]]

(***************************************************************************)
(* Join engine.                                                            *)
(***************************************************************************)
\* secondaryIndex.get(pKey): the last secondary row set under that key
IndexGet(secondary, secondaryKey, pKey) ==
    LET hits == {i \in 1..Len(secondary.rows) :
                    /\ String(Get(secondary.rows[i], secondaryKey)) # <<>>
                    /\ String(Get(secondary.rows[i], secondaryKey)) = pKey}
    IN  IF hits = {} THEN <<>>
        ELSE <<secondary.rows[CHOOSE i \in hits : \A j \in hits : j <= i]>>

HasColumn(d, k) == \E i \in 1..Len(d.columns) : d.columns[i].name = k

\* the name under which the secondary field k is merged
FinalKey(primary, secondary, k) ==
    IF HasColumn(primary, k) THEN secondary.name \o <<"_">> \o k ELSE k

\* Object.keys(sRow).forEach(...) from position i (1-based) on
RECURSIVE MergeFrom(_, _, _, _, _, _)
MergeFrom(merged, sRow, i, primary, secondary, secondaryKey) ==
    IF i > Len(sRow) THEN merged
    ELSE LET k == sRow[i].k
         IN  IF k # ID /\ k # secondaryKey
             THEN MergeFrom(Put(merged, FinalKey(primary, secondary, k), sRow[i].v),
                            sRow, i + 1, primary, secondary, secondaryKey)
             ELSE MergeFrom(merged, sRow, i + 1, primary, secondary, secondaryKey)

\* CombinedRow giving an unmatched row the secondary fields as explicit nulls
CombinedRowNullFilled(pRow, primary, secondary, primaryKey, secondaryKey) ==
    LET pKey == String(Get(pRow, primaryKey))
        sRow == IndexGet(secondary, secondaryKey, pKey)
        nulls == IF Len(secondary.rows) = 0 THEN <<>>
                 ELSE [i \in 1..Len(secondary.rows[1]) |->
                          [k |-> secondary.rows[1][i].k, v |-> Null]]
    IN  IF sRow # <<>>
        THEN MergeFrom(pRow, sRow[1], 1, primary, secondary, secondaryKey)
        ELSE MergeFrom(pRow, nulls, 1, primary, secondary, secondaryKey)

CombinedRow(pRow, primary, secondary, primaryKey, secondaryKey) ==
    LET pKey == String(Get(pRow, primaryKey))
        sRow == IndexGet(secondary, secondaryKey, pKey)
    IN  IF sRow # <<>>
        THEN MergeFrom(pRow, sRow[1], 1, primary, secondary, secondaryKey)
        ELSE pRow

joinDatasets(primary, secondary, primaryKey, secondaryKey, id) ==
    LET combinedRows ==
            [i \in 1..Len(primary.rows) |->
                CombinedRow(primary.rows[i], primary, secondary, primaryKey, secondaryKey)]
        firstKeys == IF Len(combinedRows) = 0 THEN 0 ELSE Len(Keys(combinedRows[1]))
    IN  [primary EXCEPT
            !.id = id,
            !.name = primary.name \o <<" ", "+", " ">> \o secondary.name,
            !.rows = combinedRows,
            !.columns = analyzeColumns(combinedRows),
            !.stats = [primary.stats EXCEPT
                          !.totalCells = Len(combinedRows) * firstKeys]]

(***************************************************************************)
(* Structural reshaper.                                                    *)
(***************************************************************************)
ATTRIBUTE == <<"A", "t", "t", "r", "i", "b", "u", "t", "e">>

\* `Row_${i}`
RowName(i) == <<"R", "o", "w", "_">> \o IntToString(i)

\* TransposeFill with the rows numbered from 1
RECURSIVE TransposeFillOneBased(_, _, _, _)
TransposeFillOneBased(newRow, rows, key, i) ==
    IF i >= Len(rows) THEN newRow
    ELSE TransposeFillOneBased(Put(newRow, RowName(i + 1), Get(rows[i + 1], key)),
                               rows, key, i + 1)

\* dataset.rows.forEach((oldRow, i) => newRow[`Row_${i}`] = oldRow[key])
RECURSIVE TransposeFill(_, _, _, _)
TransposeFill(newRow, rows, key, i) ==
    IF i >= Len(rows) THEN newRow
    ELSE TransposeFill(Put(newRow, RowName(i), Get(rows[i + 1], key)), rows, key, i + 1)

transposeDataset(d) ==
    LET originalKeys == ColumnNames(d)
        newRows == [index \in 1..Len(originalKeys) |->
                       TransposeFill(Put(NewRow(Num(index - 1)), ATTRIBUTE,
                                         Str(originalKeys[index])),
                                     d.rows, originalKeys[index], 0)]
        newColumns == analyzeColumns(newRows)
    IN  [d EXCEPT !.rows = newRows,
                  !.columns = newColumns,
                  !.stats = [d.stats EXCEPT
                                !.totalCells = Len(newRows) * Len(newColumns)]]

\* Object.values(row).filter(k => k !== row.id).map(String)
NewKeys(potentialHeaderRow) ==
    LET notId(v) == ~StrictEq(v, Get(potentialHeaderRow, ID))
    IN  Map(Filter(Values(potentialHeaderRow), notId), String)

\* Object.keys(oldRow).forEach(...) from position i (1-based) on
RECURSIVE RemapFrom(_, _, _, _, _)
RemapFrom(newRow, oldRow, newKeys, i, colIndex) ==
    IF i > Len(oldRow) THEN newRow
    ELSE IF oldRow[i].k = ID THEN RemapFrom(newRow, oldRow, newKeys, i + 1, colIndex)
    ELSE IF colIndex < Len(newKeys)
         THEN RemapFrom(Put(newRow, newKeys[colIndex + 1], oldRow[i].v),
                        oldRow, newKeys, i + 1, colIndex + 1)
         ELSE RemapFrom(newRow, oldRow, newKeys, i + 1, colIndex)

\* a setHeaderRow that counts the rows above the header row only
setHeaderRowCountingAbove(d, rowIndex) ==
    IF rowIndex < 0 \/ rowIndex >= Len(d.rows) THEN d
    ELSE LET newKeys == NewKeys(d.rows[rowIndex + 1])
             rest == SliceFrom(d.rows, rowIndex + 1)
             newRows == [i \in 1..Len(rest) |->
                            RemapFrom(NewRow(Num(i - 1)), rest[i], newKeys, 1, 0)]
         IN  [d EXCEPT !.rows = newRows,
                       !.columns = analyzeColumns(newRows),
                       !.stats = [d.stats EXCEPT
                                     !.droppedRows = d.stats.droppedRows + rowIndex]]

setHeaderRow(d, rowIndex) ==
    IF rowIndex < 0 \/ rowIndex >= Len(d.rows) THEN d
    ELSE LET newKeys == NewKeys(d.rows[rowIndex + 1])
             rest == SliceFrom(d.rows, rowIndex + 1)
             newRows == [i \in 1..Len(rest) |->
                            RemapFrom(NewRow(Num(i - 1)), rest[i], newKeys, 1, 0)]
         IN  [d EXCEPT !.rows = newRows,
                       !.columns = analyzeColumns(newRows),
                       !.stats = [d.stats EXCEPT
                                     !.droppedRows = d.stats.droppedRows + (rowIndex + 1)]]

\* columnsToKeep.forEach(col => { if (row.hasOwnProperty(col)) pruned[col] = row[col] })
RECURSIVE PruneFrom(_, _, _, _)
PruneFrom(pruned, row, columnsToKeep, i) ==
    IF i > Len(columnsToKeep) THEN pruned
    ELSE IF Has(row, columnsToKeep[i])
         THEN PruneFrom(Put(pruned, columnsToKeep[i], Get(row, columnsToKeep[i])),
                        row, columnsToKeep, i + 1)
         ELSE PruneFrom(pruned, row, columnsToKeep, i + 1)

\* cropDataset without the final renumbering of the row identifiers
cropDatasetKeepsIds(d, startRow, endRow, columnsToKeep) ==
    LET originalLen == Len(d.rows)
        sliced == Slice(d.rows, startRow, endRow + 1)
        droppedCount == originalLen - Len(sliced)
        newRows == IF Len(columnsToKeep) > 0
                   THEN [i \in 1..Len(sliced) |->
                            PruneFrom(NewRow(Get(sliced[i], ID)), sliced[i],
                                      columnsToKeep, 1)]
                   ELSE sliced
    IN  [d EXCEPT !.rows = newRows,
                  !.columns = analyzeColumns(newRows),
                  !.stats = [d.stats EXCEPT
                                !.droppedRows = d.stats.droppedRows + droppedCount]]

\* columnsToKeep = <<>> stands for both an absent and an empty list
cropDataset(d, startRow, endRow, columnsToKeep) ==
    LET originalLen == Len(d.rows)
        sliced == Slice(d.rows, startRow, endRow + 1)
        droppedCount == originalLen - Len(sliced)
        projected == IF Len(columnsToKeep) > 0
                     THEN [i \in 1..Len(sliced) |->
                              PruneFrom(NewRow(Get(sliced[i], ID)), sliced[i],
                                        columnsToKeep, 1)]
                     ELSE sliced
        newRows == [i \in 1..Len(projected) |-> Put(projected[i], ID, Num(i - 1))]
    IN  [d EXCEPT !.rows = newRows,
                  !.columns = analyzeColumns(newRows),
                  !.stats = [d.stats EXCEPT
                                !.droppedRows = d.stats.droppedRows + droppedCount]]

(***************************************************************************)
(* Correlation matrix of the active numeric columns.                       *)
(***************************************************************************)
\* Number(r[col]) || 0
NumberOrZero(row, name) == OrElse(Number(Get(row, name)), Num(0))

RECURSIVE SumOfProducts(_, _)
SumOfProducts(vals1, vals2) ==
    IF vals1 = <<>> THEN 0
    ELSE Head(vals1).n * Head(vals2).n + SumOfProducts(Tail(vals1), Tail(vals2))

\* num / den for integer cells: with n rows, num is cross / n and den is
\* sqrt(var1 * var2) / n for the integers below, so that den === 0 exactly
\* when var1 * var2 = 0, and the quotient is cross / sqrt(var1 * var2)
Quotient(cross, var1, var2) ==
    IF var1 * var2 = 0 THEN Num(0)
    ELSE [t |-> "quotient", n |-> cross, s |-> <<"sqrt", var1 * var2>>]

\* the coefficient with the first column's variance taken twice
PearsonByFirstVariance(rows, col1, col2) ==
    LET vals1 == [i \in 1..Len(rows) |-> NumberOrZero(rows[i], col1)]
        vals2 == [i \in 1..Len(rows) |-> NumberOrZero(rows[i], col2)]
        n == Len(rows)
        var1 == n * SumOfProducts(vals1, vals1) - Sum(vals1) * Sum(vals1)
    IN  Quotient(n * SumOfProducts(vals1, vals2) - Sum(vals1) * Sum(vals2), var1, var1)

\* the coefficient of two columns: computed for integer cells; NaN when a
\* cell is infinite (the sums are infinite and their difference is NaN, which
\* is not === 0) or when there is no row (0 / 0); the unevaluated term
\* otherwise, the same one for both orders of the columns
Pearson(rows, col1, col2) ==
    LET vals1 == [i \in 1..Len(rows) |-> NumberOrZero(rows[i], col1)]
        vals2 == [i \in 1..Len(rows) |-> NumberOrZero(rows[i], col2)]
        all == vals1 \o vals2
        n == Len(rows)
        var1 == n * SumOfProducts(vals1, vals1) - Sum(vals1) * Sum(vals1)
        var2 == n * SumOfProducts(vals2, vals2) - Sum(vals2) * Sum(vals2)
    IN  IF n = 0 \/ \E i \in 1..Len(all) : all[i].t = "-Infinity" THEN NaN
        ELSE IF \A i \in 1..Len(all) : all[i].t = "number"
             THEN Quotient(n * SumOfProducts(vals1, vals2) - Sum(vals1) * Sum(vals2),
                           var1, var2)
        ELSE [t |-> "term", n |-> 0, s |-> <<"pearson", {vals1, vals2}>>]

calculateCorrelationMatrix(d) ==
    LET numeric(c) == c.type = "number" /\ c.isActive
        selected == Filter(d.columns, numeric)
        numericCols == [i \in 1..Len(selected) |-> selected[i].name]
    IN  IF Len(numericCols) < 2 THEN [cols |-> <<>>, matrix |-> <<>>]
        ELSE [cols |-> numericCols,
              matrix |-> [i \in 1..Len(numericCols) |->
                            [j \in 1..Len(numericCols) |->
                                IF i = j THEN Num(1)
                                ELSE Pearson(d.rows, numericCols[i], numericCols[j])]]]

(***************************************************************************)
(* Calculated column. The formula language of the model: identifiers,      *)
(* decimal literals, the operators * and **, parentheses (grouping and     *)
(* call), blanks. The formulas the model offers are texts of this language.*)
(***************************************************************************)
\* String.prototype.includes
Includes(s, p) == \E i \in 0..(Len(s) - Len(p)) : SubSeq(s, i + 1, i + Len(p)) = p

IsWordChar(c) ==
    c \in Range(LowerLetters) \/ c \in Range(UpperLetters) \/ IsDigit(c) \/ c = "_"

\* the tokens of a text, from position i, with the word read so far
RECURSIVE TokensFrom(_, _, _)
TokensFrom(s, i, word) ==
    LET flush == IF word = <<>> THEN <<>> ELSE <<word>>
    IN  IF i > Len(s) THEN flush
        ELSE IF IsWordChar(s[i]) THEN TokensFrom(s, i + 1, Append(word, s[i]))
        ELSE IF IsSpace(s[i]) THEN flush \o TokensFrom(s, i + 1, <<>>)
        ELSE IF s[i] = "*" /\ i < Len(s) /\ s[i + 1] = "*"
             THEN flush \o <<<<"*", "*">>>> \o TokensFrom(s, i + 2, <<>>)
        ELSE flush \o <<<<s[i]>>>> \o TokensFrom(s, i + 1, <<>>)

Tokens(s) == TokensFrom(s, 1, <<>>)

IsNumberLiteral(w) == AllDigits(w) /\ (Len(w) = 1 \/ w[1] # "0")

IsIdentifier(w) == w # <<>> /\ ~IsDigit(w[1]) /\ \A i \in 1..Len(w) : IsWordChar(w[i])

\* what running a piece of the function body gave: a number, or a throw
\* (ReferenceError for a name that is no parameter, TypeError for a call of
\* a number)
Throws == [t |-> "throws", n |-> 0, s |-> <<>>]

RECURSIVE Pow(_, _)
Pow(a, b) == IF b = 0 THEN 1 ELSE a * Pow(a, b - 1)

\* a * b and a ** b: evaluated for integers (a non-negative exponent), a
\* throw when an operand threw, and left as the unevaluated term otherwise
Times(a, b) ==
    IF a.t = "number" /\ b.t = "number" THEN Num(a.n * b.n)
    ELSE IF a = Throws \/ b = Throws THEN Throws
    ELSE [t |-> "term", n |-> 0, s |-> <<a, "*", b>>]

Power(a, b) ==
    IF a.t = "number" /\ b.t = "number" /\ b.n >= 0 THEN Num(Pow(a.n, b.n))
    ELSE IF a = Throws \/ b = Throws THEN Throws
    ELSE [t |-> "term", n |-> 0, s |-> <<a, "**", b>>]

\* the outcome of parsing from token i: parsed, the next position, the value
\* that evaluating the parsed piece gives with the parameters bound by env
Parsed(i, v) == [ok |-> TRUE, pos |-> i, val |-> v]

Failed == [ok |-> FALSE, pos |-> 0, val |-> Throws]

TokenAt(toks, i) == IF i <= Len(toks) THEN toks[i] ELSE <<>>

RECURSIVE ParseMul(_, _, _), ParseMulRest(_, _, _), ParsePow(_, _, _),
          ParsePostfix(_, _, _), ParseCalls(_, _, _), ParsePrimary(_, _, _)

\* the ) after a parsed Expression e: of a parenthesized one, whose value is
\* that of e, or of a call's argument, and calling a number throws
Closed(toks, e, isCall) ==
    IF e.ok /\ TokenAt(toks, e.pos) = <<")">>
    THEN Parsed(e.pos + 1, IF isCall THEN Throws ELSE e.val)
    ELSE Failed

\* Primary: a literal, a name, ( Expression )
ParsePrimary(toks, i, env) ==
    LET w == TokenAt(toks, i)
    IN  IF IsNumberLiteral(w) THEN Parsed(i + 1, Num(DigitsToNat(w)))
        ELSE IF IsIdentifier(w)
             THEN Parsed(i + 1, IF Has(env, w) THEN Get(env, w) ELSE Throws)
        ELSE IF w = <<"(">> THEN Closed(toks, ParseMul(toks, i + 1, env), FALSE)
        ELSE Failed

\* one call after a callee: ( ) or ( Expression )
AfterCall(toks, callee, env) ==
    IF TokenAt(toks, callee.pos + 1) = <<")">>
    THEN Parsed(callee.pos + 2, Throws)
    ELSE Closed(toks, ParseMul(toks, callee.pos + 1, env), TRUE)

\* the calls after a callee
ParseCalls(toks, callee, env) ==
    IF ~callee.ok THEN Failed
    ELSE IF TokenAt(toks, callee.pos) # <<"(">> THEN callee
    ELSE ParseCalls(toks, AfterCall(toks, callee, env), env)

ParsePostfix(toks, i, env) == ParseCalls(toks, ParsePrimary(toks, i, env), env)

Raise(base, e) ==
    IF e.ok THEN Parsed(e.pos, Power(base.val, e.val)) ELSE Failed

PowTail(toks, base, env) ==
    IF ~base.ok THEN Failed
    ELSE IF TokenAt(toks, base.pos) # <<"*", "*">> THEN base
    ELSE Raise(base, ParsePow(toks, base.pos + 1, env))

\* Exponentiation: Postfix, or Postfix ** Exponentiation
ParsePow(toks, i, env) == PowTail(toks, ParsePostfix(toks, i, env), env)

Multiply(left, right) ==
    IF right.ok THEN Parsed(right.pos, Times(left.val, right.val)) ELSE Failed

ParseMulRest(toks, left, env) ==
    IF ~left.ok THEN Failed
    ELSE IF TokenAt(toks, left.pos) # <<"*">> THEN left
    ELSE ParseMulRest(toks, Multiply(left, ParsePow(toks, left.pos + 1, env)), env)

\* Multiplication: Exponentiation ( * Exponentiation )*
ParseMul(toks, i, env) == ParseMulRest(toks, ParsePow(toks, i, env), env)

\* the body `return ${formula};` with the parameters bound by env: whether
\* it is a function body, and what running it returns
Body(formula, env) ==
    LET toks == Tokens(formula)
        e == ParseMul(toks, 1, env)
    IN  IF toks = <<>> THEN Parsed(1, Undefined)
        ELSE IF e.ok /\ e.pos = Len(toks) + 1 THEN e
        ELSE Failed

\* new Function(...usedColumns, `return ${formula};`) does not throw: every
\* name is a parameter name and the body is a function body
Compiles(usedColumns, formula) ==
    /\ \A i \in 1..Len(usedColumns) : IsIdentifier(usedColumns[i])
    /\ Body(formula, <<>>).ok

\* the longest prefix of digits of a text
RECURSIVE DigitPrefix(_)
DigitPrefix(s) ==
    IF s # <<>> /\ IsDigit(s[1]) THEN <<s[1]>> \o DigitPrefix(Tail(s)) ELSE <<>>

\* parseFloat(v): the number that the text of v begins with, after blanks
\* and a sign, whatever follows it; NaN when it begins with none
ParseFloat(v) ==
    LET s == TrimStart(String(v))
        negative == s # <<>> /\ s[1] = "-"
        unsigned == IF s # <<>> /\ s[1] \in {"-", "+"} THEN Tail(s) ELSE s
        digits == DigitPrefix(unsigned)
        rest == SubSeq(unsigned, Len(digits) + 1, Len(unsigned))
    IN  IF v.t \in {"ln", "-Infinity"} THEN v
        ELSE IF digits = <<>> THEN NaN
        ELSE IF Len(rest) >= 2 /\ rest[1] = "." /\ IsDigit(rest[2])
             THEN [t |-> "term", n |-> 0, s |-> <<"parseFloat", s>>]
        ELSE Num(IF negative THEN -DigitsToNat(digits) ELSE DigitsToNat(digits))

\* isNaN(v): ToNumber(v) is NaN (an unevaluated term is a number)
IsNaN(v) == v.t # "term" /\ Number(v).t = "NaN"

\* the argument for one referenced column
FormulaArg(row, colName) ==
    LET val == ParseFloat(Get(row, colName)) IN IF IsNaN(val) THEN Num(0) ELSE val

\* the new cell of one row: the catch gives 0 when running the body throws
CalculatedCell(row, usedColumns, formula) ==
    LET env == [i \in 1..Len(usedColumns) |->
                   [k |-> usedColumns[i], v |-> FormulaArg(row, usedColumns[i])]]
        result == Body(formula, env).val
    IN  IF result = Throws THEN Num(0)
        ELSE IF IsNaN(result) THEN Num(0)
        ELSE result

\* createCalculatedColumn without the throw of the catch around the compile
createCalculatedColumnNoThrow(d, newColName, formula) ==
    LET usedColumns == LET used(name) == Includes(formula, name)
                       IN  Filter(ColumnNames(d), used)
        newRows == [i \in 1..Len(d.rows) |->
                       Put(d.rows[i], newColName,
                           IF Compiles(usedColumns, formula)
                           THEN CalculatedCell(d.rows[i], usedColumns, formula)
                           ELSE Num(0))]
    IN  [threw |-> FALSE, evaluated |-> Len(d.rows),
         out |-> [d EXCEPT !.rows = newRows, !.columns = analyzeColumns(newRows)]]

\* the outcome of the call: whether it threw, how many rows were evaluated
\* before it ended, and the Dataset it returned
createCalculatedColumn(d, newColName, formula) ==
    LET usedColumns == LET used(name) == Includes(formula, name)
                       IN  Filter(ColumnNames(d), used)
        newRows == [i \in 1..Len(d.rows) |->
                       Put(d.rows[i], newColName,
                           CalculatedCell(d.rows[i], usedColumns, formula))]
    IN  IF ~Compiles(usedColumns, formula)
        THEN [threw |-> TRUE, evaluated |-> 0, out |-> NoDataset]
        ELSE [threw |-> FALSE, evaluated |-> Len(d.rows),
              out |-> [d EXCEPT !.rows = newRows, !.columns = analyzeColumns(newRows)]]

(***************************************************************************)
(* DataGrid handlers: the dataset handed to onUpdateDataset.               *)
(***************************************************************************)
\* newR[newName] = newR[oldName]; delete newR[oldName]
RenamedRow(r, oldName, newName) == Delete(Put(r, newName, Get(r, oldName)), oldName)

\* the guard !newName || newName === oldName returns before any update
handleRenameCol(d, oldName, newName) ==
    IF newName = <<>> \/ newName = oldName THEN d
    ELSE [d EXCEPT
            !.columns = [i \in 1..Len(d.columns) |->
                            IF d.columns[i].name = oldName
                            THEN [d.columns[i] EXCEPT !.name = newName]
                            ELSE d.columns[i]],
            !.rows = [i \in 1..Len(d.rows) |-> RenamedRow(d.rows[i], oldName, newName)]]

toggleColumnActive(d, colName) ==
    [d EXCEPT !.columns = [i \in 1..Len(d.columns) |->
                              IF d.columns[i].name = colName
                              THEN [d.columns[i] EXCEPT !.isActive = ~d.columns[i].isActive]
                              ELSE d.columns[i]]]

(***************************************************************************)
(* Inputs.                                                                 *)
(***************************************************************************)
K == <<"k">>

X == <<"x">>

\* the display names of the primary and of the secondary file
PrimaryName == <<"P">>

SecondaryName == <<"S">>

\* a column name that no dataset of the model has
AbsentName == <<"n", "o", "n", "e">>

HeaderLines == {<<K, X>>, <<K, K>>, <<ID, X>>, <<X, SecondaryName \o <<"_">> \o X>>}

DataLines ==
    {<<<<"0">>, <<"a">>>>, <<<<"a">>, <<"a">>>>, <<<<"1">>, <<"a", ",", "k">>>>,
     <<<<"a">>>>}

RECURSIVE SeqsUpTo(_, _)
SeqsUpTo(S, n) ==
    IF n = 0 THEN {<<>>}
    ELSE LET shorter == SeqsUpTo(S, n - 1)
         IN  shorter \cup {Append(q, e) : q \in {r \in shorter : Len(r) = n - 1}, e \in S}

\* the scenario file of the header-recovery heuristic
ScenarioFile ==
    << <<<<"R", "E", "P", "O", "R", "T">>, <<>>, <<>>, <<>>>>,
       <<<<>>>>,
       <<<<"N", "a", "m", "e">>, <<"A", "g", "e">>, <<"C", "i", "t", "y">>>>,
       <<<<"A", "n", "n">>, <<"3", "0">>, <<"N", "Y">>>>,
       <<<<"B", "o">>, <<"2", "5">>, <<"L", "A">>>>,
       <<<<"C", "y">>, <<"4", "0">>, <<"S", "F">>>> >>

\* files of field texts: a header line, then up to MaxLines data lines
Files ==
    {<<h>> \o body : h \in HeaderLines, body \in SeqsUpTo(DataLines, MaxLines)}
        \cup {ScenarioFile}

\* the files that the join takes its secondary dataset from
SecondaryFiles ==
    { << <<K, X>>, <<<<"a">>, <<"s">>>>, <<<<"a">>, <<"u">>>>, <<<<>>, <<"v">>>> >>,
      << <<X, <<"y">>>>, <<<<"0">>, <<"t">>>>, <<<<"a">>, <<"1">>>> >> }

\* feature collections: rows whose property bags differ
Features ==
    { << [properties |-> <<[k |-> K, v |-> Str(<<"a">>)]>>, geometry |-> "Point",
          lng |-> Num(1), lat |-> Num(2)],
         [properties |-> <<[k |-> K, v |-> Str(<<"a">>)], [k |-> X, v |-> Num(5)]>>,
          geometry |-> "Polygon", lng |-> Num(0), lat |-> Num(0)] >>,
      << [properties |-> <<[k |-> ID, v |-> Num(4)], [k |-> K, v |-> Num(0)]>>,
          geometry |-> "none", lng |-> Num(0), lat |-> Num(0)],
         [properties |-> <<[k |-> ID, v |-> Num(4)], [k |-> K, v |-> Null]>>,
          geometry |-> "MultiPolygon", lng |-> Num(0), lat |-> Num(0)] >> }

\* the parameters of the transformation form
Params == {[delimiter |-> Str(<<",">>), index |-> Num(1), value |-> Num(1)]}

\* the names a join can be asked about: the columns and an absent name
NamesOf(d) == Range(ColumnNames(d)) \cup {AbsentName}

\* handleApplyTransform: the selected column, the chosen kind, the params
Configs(d) ==
    {[type |-> ty, targetCol |-> c, params |-> p] :
        ty \in TransformationType, c \in Range(ColumnNames(d)), p \in Params}

\* every cell of the target column is a number the model holds exactly
ExactColumn(d, c) == \A i \in 1..Len(d.rows) : IsExact(Get(d.rows[i], c))

\* row indices offered to crop and to promote-row-to-header, negative ones too
Indices == (-MaxIndex)..MaxIndex

(***************************************************************************)
(* The state machine: an ingestion, then operations that each replace the  *)
(* dataset by the Dataset they return. None of the operations below has a  *)
(* throw statement or an expression that throws on scalar cells, so each   *)
(* records threw = FALSE.                                                  *)
(***************************************************************************)
Init ==
    /\ dataset = NoDataset
    /\ loaded = FALSE
    /\ last = [op |-> "none"]
    /\ ops = 0
    /\ uuid = 1
    /\ lenientDates \in BOOLEAN
    /\ ingest = IdleIngest
    /\ heap = <<>>
    /\ app = MountedApp

IngestTabular ==
    /\ ~loaded
    /\ \E file \in Files :
          /\ dataset' = parseCSV(file, PrimaryName, uuid)
          /\ last' = [op |-> "parseCSV", file |-> file, out |-> dataset']
    /\ loaded' = TRUE
    /\ uuid' = uuid + 1
    /\ UNCHANGED ops
    /\ UNCHANGED <<lenientDates, heap, app, ingest>>

IngestGeographic ==
    /\ ~loaded
    /\ \E features \in Features :
          /\ dataset' = parseGeoJSON(features, PrimaryName, uuid)
          /\ last' = [op |-> "parseGeoJSON", features |-> features, out |-> dataset']
    /\ loaded' = TRUE
    /\ uuid' = uuid + 1
    /\ UNCHANGED ops
    /\ UNCHANGED <<lenientDates, heap, app, ingest>>

Transform ==
    /\ loaded /\ ops < MaxOps
    /\ \E config \in Configs(dataset) :
          /\ ExactColumn(dataset, config.targetCol)
          /\ dataset' = applyTransformation(dataset, config)
          /\ last' = [op |-> "applyTransformation", config |-> config,
                      in |-> dataset, out |-> dataset', threw |-> FALSE]
    /\ ops' = ops + 1
    /\ UNCHANGED <<loaded, uuid>>
    /\ UNCHANGED <<lenientDates, heap, app, ingest>>

Join ==
    /\ loaded /\ ops < MaxOps
    /\ \E file \in SecondaryFiles :
          LET secondary == parseCSV(file, SecondaryName, uuid)
          IN  \E primaryKey \in NamesOf(dataset), secondaryKey \in NamesOf(secondary) :
                 /\ dataset' = joinDatasets(dataset, secondary, primaryKey,
                                            secondaryKey, uuid + 1)
                 /\ last' = [op |-> "joinDatasets", in |-> dataset,
                             secondary |-> secondary, primaryKey |-> primaryKey,
                             secondaryKey |-> secondaryKey, out |-> dataset',
                             threw |-> FALSE]
    /\ ops' = ops + 1
    /\ uuid' = uuid + 2
    /\ UNCHANGED loaded
    /\ UNCHANGED <<lenientDates, heap, app, ingest>>

Transpose ==
    /\ loaded /\ ops < MaxOps
    /\ dataset' = transposeDataset(dataset)
    /\ last' = [op |-> "transposeDataset", in |-> dataset, out |-> dataset', threw |-> FALSE]
    /\ ops' = ops + 1
    /\ UNCHANGED <<loaded, uuid>>
    /\ UNCHANGED <<lenientDates, heap, app, ingest>>

SetHeader ==
    /\ loaded /\ ops < MaxOps
    /\ \E rowIndex \in Indices :
          /\ dataset' = setHeaderRow(dataset, rowIndex)
          /\ last' = [op |-> "setHeaderRow", rowIndex |-> rowIndex,
                      in |-> dataset, out |-> dataset', threw |-> FALSE]
    /\ ops' = ops + 1
    /\ UNCHANGED <<loaded, uuid>>
    /\ UNCHANGED <<lenientDates, heap, app, ingest>>

Crop ==
    /\ loaded /\ ops < MaxOps
    /\ \E startRow \in Indices, endRow \in Indices,
          columnsToKeep \in {<<>>} \cup {Slice(ColumnNames(dataset), 0, 1)} :
          /\ dataset' = cropDataset(dataset, startRow, endRow, columnsToKeep)
          /\ last' = [op |-> "cropDataset", startRow |-> startRow, endRow |-> endRow,
                      columnsToKeep |-> columnsToKeep, in |-> dataset, out |-> dataset', threw |-> FALSE]
    /\ ops' = ops + 1
    /\ UNCHANGED <<loaded, uuid>>
    /\ UNCHANGED <<lenientDates, heap, app, ingest>>

RenameCol ==
    /\ loaded /\ ops < MaxOps
    /\ \E oldName \in Range(ColumnNames(dataset)),
          newName \in Range(ColumnNames(dataset)) \cup {AbsentName, ID, <<>>} :
          /\ dataset' = handleRenameCol(dataset, oldName, newName)
          /\ last' = [op |-> "handleRenameCol", oldName |-> oldName,
                      newName |-> newName, in |-> dataset, out |-> dataset', threw |-> FALSE]
    /\ ops' = ops + 1
    /\ UNCHANGED <<loaded, uuid>>
    /\ UNCHANGED <<lenientDates, heap, app, ingest>>

ToggleActive ==
    /\ loaded /\ ops < MaxOps
    /\ \E colName \in Range(ColumnNames(dataset)) :
          /\ dataset' = toggleColumnActive(dataset, colName)
          /\ last' = [op |-> "toggleColumnActive", colName |-> colName,
                      in |-> dataset, out |-> dataset', threw |-> FALSE]
    /\ ops' = ops + 1
    /\ UNCHANGED <<loaded, uuid>>
    /\ UNCHANGED <<lenientDates, heap, app, ingest>>

Next ==
    \/ IngestTabular
    \/ IngestGeographic
    \/ Transform
    \/ Join
    \/ Transpose
    \/ SetHeader
    \/ Crop
    \/ RenameCol
    \/ ToggleActive

Spec == Init /\ [][Next]_vars

(***************************************************************************)
(* The column analyzer on its own: analyzeColumns applied to the rows of   *)
(* one column.                                                             *)
(***************************************************************************)
\* the cells of the analyzed column: numbers, the three missing values, text
\* that is no date, text in the Date Time String Format, text of digits
CellValues ==
    {Num(1), Num(2), Num(4), Null, Undefined, Str(<<>>), Str(<<"a">>),
     Str(<<"2", "0", "2", "0">>), Str(<<"1">>)}

\* rows { id: i, k: values[i] }
ColumnRows(values) == [i \in 1..Len(values) |-> Put(NewRow(Num(i - 1)), K, values[i])]

InitAnalyzer ==
    /\ dataset = NoDataset
    /\ loaded = FALSE
    /\ \E values \in SeqsUpTo(CellValues, MaxValues) :
          last = [op |-> "rows", rows |-> ColumnRows(values)]
    /\ ops = 0
    /\ uuid = 1
    /\ lenientDates \in BOOLEAN
    /\ ingest = IdleIngest
    /\ heap = <<>>
    /\ app = MountedApp

Analyze ==
    /\ last.op = "rows"
    /\ last' = [op |-> "analyzeColumns", rows |-> last.rows,
                out |-> analyzeColumns(last.rows)]
    /\ UNCHANGED <<dataset, loaded, ops, uuid, lenientDates, heap, app, ingest>>

NextAnalyzer == Analyze

SpecAnalyzer == InitAnalyzer /\ [][NextAnalyzer]_vars

(***************************************************************************)
(* The calculated column on its own: handleCreateFeature of the Analytics  *)
(* panel on a dataset with the columns Price and Quantity.                 *)
(***************************************************************************)
Price == <<"P", "r", "i", "c", "e">>

Quantity == <<"Q", "u", "a", "n", "t", "i", "t", "y">>

Total == <<"T", "o", "t", "a", "l">>

\* formulas that compile and formulas that do not, a name that is no column,
\* a call of a number, the blank and the empty formula
Formulas ==
    {<<"P", "r", "i", "c", "e", " ", "*", " ", "Q", "u", "a", "n", "t", "i", "t", "y">>,
     <<"P", "r", "i", "c", "e", "*", "Q", "u", "a", "n", "t", "i", "t", "y">>,
     <<"P", "r", "i", "c", "e", " ", "*">>,
     <<"(", " ", "P", "r", "i", "c", "e">>,
     <<"P", "r", "i", "c", "e", " ", "Q", "u", "a", "n", "t", "i", "t", "y">>,
     <<"P", "r", "i", "c", "e", " ", "(", " ", "2", " ", ")">>,
     <<"T", "a", "x", " ", "*", " ", "2">>,
     <<" ">>,
     <<>>,
     <<"P", "r", "i", "c", "e", " ", "*", "*", " ", "2">>,
     <<"2", " ", "*", " ", "(", " ", "Q", "u", "a", "n", "t", "i", "t", "y", " ", ")">>}

\* data lines: numbers, text that is no number, text that begins with one
FormulaLines ==
    {<<<<"1", "0">>, <<"2">>>>,
     <<<<"b", "a", "d">>, <<"3">>>>,
     <<<<"1", "2", "a", "b", "c">>, <<"2">>>>}

FormulaFiles == {<<<<Price, Quantity>>>> \o body : body \in SeqsUpTo(FormulaLines, MaxLines)}

InitFormula ==
    /\ lenientDates \in BOOLEAN
    /\ ingest = IdleIngest
    /\ heap = <<>>
    /\ app = MountedApp
    /\ \E file \in FormulaFiles : dataset = parseCSV(file, PrimaryName, 1)
    /\ loaded = TRUE
    /\ \E formula \in Formulas, newColName \in {Total, Price, <<>>} :
          last = [op |-> "form", newColName |-> newColName, formula |-> formula]
    /\ ops = 0
    /\ uuid = 2

\* handleCreateFeature: nothing without a name or a formula; the dataset is
\* replaced only when createCalculatedColumn returns
CreateFeature ==
    /\ last.op = "form"
    /\ LET called == last.newColName # <<>> /\ last.formula # <<>>
           call == createCalculatedColumn(dataset, last.newColName, last.formula)
       IN  IF called
           THEN /\ dataset' = IF call.threw THEN dataset ELSE call.out
                /\ last' = [op |-> "createCalculatedColumn", in |-> dataset,
                            newColName |-> last.newColName, formula |-> last.formula,
                            threw |-> call.threw, evaluated |-> call.evaluated,
                            out |-> call.out]
           ELSE /\ dataset' = dataset
                /\ last' = [op |-> "handleCreateFeature", in |-> dataset,
                            newColName |-> last.newColName, formula |-> last.formula]
    /\ ops' = ops + 1
    /\ UNCHANGED <<loaded, uuid, lenientDates, heap, app, ingest>>

NextFormula == CreateFeature

SpecFormula == InitFormula /\ [][NextFormula]_vars

(***************************************************************************)
(* The correlation matrix of the Analytics panel, on files of three        *)
(* columns and on a feature collection with numbers held as text, after    *)
(* logarithm columns were added and columns were switched off.             *)
(***************************************************************************)
Y == <<"y">>

\* data lines: the column y is constant, and is text with the last line
CorrelationLines ==
    {<<<<"1">>, <<"2">>, <<"3">>>>,
     <<<<"2">>, <<"4">>, <<"3">>>>,
     <<<<"3">>, <<"1">>, <<"3">>>>,
     <<<<"1">>, <<"1">>, <<"a">>>>}

CorrelationFiles == {<<<<K, X, Y>>>> \o body : body \in SeqsUpTo(CorrelationLines, MaxRows)}

\* features whose property x holds the numbers 0 and 1 as text
CorrelationFeatures ==
    << [properties |-> <<[k |-> K, v |-> Num(1)], [k |-> X, v |-> Str(<<"0">>)]>>,
        geometry |-> "none", lng |-> Num(0), lat |-> Num(0)],
       [properties |-> <<[k |-> K, v |-> Num(2)], [k |-> X, v |-> Str(<<"1">>)]>>,
        geometry |-> "none", lng |-> Num(0), lat |-> Num(0)] >>

InitCorrelation ==
    /\ lenientDates \in BOOLEAN
    /\ ingest = IdleIngest
    /\ heap = <<>>
    /\ app = MountedApp
    /\ \/ \E file \in CorrelationFiles : dataset = parseCSV(file, PrimaryName, 1)
       \/ dataset = parseGeoJSON(CorrelationFeatures, PrimaryName, 1)
    /\ loaded = TRUE
    /\ last = [op |-> "none"]
    /\ ops = 0
    /\ uuid = 2

\* handleApplyTransform with the natural logarithm of a column
LogColumn ==
    /\ loaded /\ ops < MaxOps
    /\ \E c \in Range(ColumnNames(dataset)) :
          LET config == [type |-> "math_log", targetCol |-> c, params |-> [none |-> 0]]
          IN  /\ ExactColumn(dataset, c)
              /\ dataset' = applyTransformation(dataset, config)
              /\ last' = [op |-> "applyTransformation", config |-> config,
                          in |-> dataset, out |-> dataset', threw |-> FALSE]
    /\ ops' = ops + 1
    /\ UNCHANGED <<loaded, uuid, lenientDates, heap, app, ingest>>

\* the memoized correlation of the features tab: the dataset is only read
Correlate ==
    /\ loaded
    /\ last.op # "calculateCorrelationMatrix"
    /\ last' = [op |-> "calculateCorrelationMatrix", in |-> dataset,
                out |-> calculateCorrelationMatrix(dataset), threw |-> FALSE]
    /\ UNCHANGED <<dataset, loaded, ops, uuid, lenientDates, heap, app, ingest>>

NextCorrelation ==
    \/ LogColumn
    \/ ToggleActive
    \/ Correlate

SpecCorrelation == InitCorrelation /\ [][NextCorrelation]_vars

(***************************************************************************)
(* The ingestion process: DataIngest's handleFile awaits parseCSV, whose   *)
(* parser hands over the file chunk by chunk and then completes, or        *)
(* parseGeoJSON, whose reader hands it over whole. Each callback of the    *)
(* parser, of the timer and of the reader is one action; the continuation  *)
(* of handleFile runs with the callback that settles the promise.          *)
(***************************************************************************)
\* the lines that the parser hands to one chunk callback; the parser cuts a
\* file into chunks of a fixed number of bytes
ChunkLines == 1

EndsWith(s, p) == Len(p) <= Len(s) /\ SubSeq(s, Len(s) - Len(p) + 1, Len(s)) = p

\* the bytes of one line: its fields, the commas between them, the line break
LineSize(line) == Len(JoinEmpty(line)) + Len(line)

\* the bytes of the first n lines: results.meta.cursor after them, and
\* file.size for all of them
RECURSIVE Size(_, _)
Size(lines, n) == IF n = 0 THEN 0 ELSE Size(lines, n - 1) + LineSize(lines[n])

\* Math.min(99, Math.round((cursor / totalSize) * 100)); where the exact
\* quotient lies halfway between two integers, the product of the two
\* roundings of double arithmetic lies on either side of it
Percents(cursor, totalSize) ==
    LET exact == 100 * cursor
        down == exact \div totalSize
        halfway == 2 * (exact % totalSize) = totalSize
        rounded == (2 * exact + totalSize) \div (2 * totalSize)
    IN  {Min2(99, r) : r \in IF halfway THEN {down, down + 1} ELSE {rounded}}

\* setProgress(percent)
SetProgress(g, percent) ==
    [g EXCEPT !.progress = percent, !.shown = Append(@, percent)]

\* onProgress(percent), which DataIngest passes as setProgress
OnProgress(g, percent) ==
    SetProgress([g EXCEPT !.reported = Append(@, percent)], percent)

\* the promise resolves and handleFile continues after its await
Resolved(g, d) ==
    [g EXCEPT !.tempDataset = d, !.step = "review", !.pc = "idle",
              !.settled = @ + 1, !.outcome = "success", !.resolved = d]

\* the promise rejects, or handleFile throws, and its catch runs
Rejected(g) ==
    [g EXCEPT !.step = "upload", !.pc = "idle", !.settled = @ + 1,
              !.outcome = "failure"]

\* String(val).replace(/,/g, '')
WithoutCommas(s) == LET kept(c) == c # "," IN Filter(s, kept)

ConvertedCell(val, targetType) ==
    IF targetType = "number"
    THEN LET parsed == ParseFloat(Str(WithoutCommas(String(val))))
         IN  IF IsNaN(parsed) THEN Null ELSE parsed
    ELSE IF val = Null \/ val = Undefined THEN Str(<<>>) ELSE Str(String(val))

convertColumnType(d, colName, targetType) ==
    LET newRows == [i \in 1..Len(d.rows) |->
                       Put(d.rows[i], colName,
                           ConvertedCell(Get(d.rows[i], colName), targetType))]
    IN  [d EXCEPT !.rows = newRows, !.columns = analyzeColumns(newRows)]

CsvName == PrimaryName \o <<".", "c", "s", "v">>

GeoJsonName == PrimaryName \o <<".", "g", "e", "o", "j", "s", "o", "n">>

TxtName == PrimaryName \o <<".", "t", "x", "t">>

\* a file of as many lines of four bytes as eleven chunks hold
LongFile ==
    [i \in 1..(11 * ChunkLines) |->
        IF i = 1 THEN <<K, X>> ELSE <<<<"0">>, <<"a">>>>]

\* the files given to handleFile: delimited text, an empty one and a long one
\* among it, feature collections, text that is no JSON, an unsupported format
IngestFiles ==
    {[name |-> CsvName, lines |-> lines, features |-> <<>>, valid |-> TRUE] :
        lines \in Files \cup {<<>>, LongFile}}
    \cup {[name |-> GeoJsonName, lines |-> <<>>, features |-> f, valid |-> TRUE] :
            f \in Features}
    \cup {[name |-> GeoJsonName, lines |-> <<>>, features |-> <<>>, valid |-> FALSE],
          [name |-> TxtName, lines |-> <<>>, features |-> <<>>, valid |-> TRUE]}

\* handleFile up to its await; an unsupported format throws before any
HandleFile ==
    /\ ~loaded /\ ingest.step = "upload" /\ ops < MaxOps
    /\ \E file \in IngestFiles :
          LET started == SetProgress([ingest EXCEPT !.step = "parsing",
                                         !.file = file, !.cursor = 0, !.rows = <<>>,
                                         !.shown = <<>>, !.reported = <<>>,
                                         !.settled = 0, !.outcome = "none",
                                         !.resolved = NoDataset], 10)
          IN  /\ ingest' =
                    IF EndsWith(file.name, <<".", "c", "s", "v">>)
                    THEN [started EXCEPT !.pc = "csv"]
                    ELSE IF \/ EndsWith(file.name, <<".", "j", "s", "o", "n">>)
                            \/ EndsWith(file.name, <<".", "g", "e", "o", "j", "s", "o", "n">>)
                    THEN SetProgress([started EXCEPT !.pc = "reading"], 50)
                    ELSE Rejected(started)
              /\ last' = [op |-> "handleFile", file |-> file]
    /\ ops' = ops + 1
    /\ UNCHANGED <<dataset, loaded, uuid, lenientDates, heap, app>>

\* the chunk callback; the chunk of an empty file has no rows and cursor 0,
\* so that its callback changes nothing
Chunk ==
    /\ ingest.pc = "csv" /\ ingest.cursor < Len(ingest.file.lines)
    /\ LET lines == ingest.file.lines
           next == Min2(Len(lines), ingest.cursor + ChunkLines)
           data == ParsedRows(SubSeq(lines, ingest.cursor + 1, next))
           cursor == Size(lines, next)
           totalSize == Size(lines, Len(lines))
           grown == [ingest EXCEPT !.rows = @ \o data, !.cursor = next]
       IN  IF cursor # 0
           THEN \E percent \in Percents(cursor, totalSize) :
                    ingest' = OnProgress(grown, percent)
           ELSE ingest' = grown
    /\ UNCHANGED <<dataset, loaded, last, ops, uuid, lenientDates, heap, app>>

\* the error callback: the file cannot be read any further
ParserError ==
    /\ ingest.pc = "csv"
    /\ ingest' = Rejected(ingest)
    /\ UNCHANGED <<dataset, loaded, last, ops, uuid, lenientDates, heap, app>>

\* the complete callback, which starts the timer
Complete ==
    /\ ingest.pc = "csv" /\ ingest.cursor = Len(ingest.file.lines)
    /\ ingest' = [OnProgress(ingest, 100) EXCEPT !.pc = "timer"]
    /\ UNCHANGED <<dataset, loaded, last, ops, uuid, lenientDates, heap, app>>

\* the timer's callback
Timer ==
    /\ ingest.pc = "timer"
    /\ ingest' = Resolved(ingest, processRawData(ingest.rows, ingest.file.name, uuid))
    /\ uuid' = uuid + 1
    /\ UNCHANGED <<dataset, loaded, last, ops, lenientDates, heap, app>>

\* reader.onload: text that is no JSON rejects
GeoLoaded ==
    /\ ingest.pc = "reading"
    /\ ingest' =
          IF ingest.file.valid
          THEN Resolved(SetProgress(ingest, 100),
                        parseGeoJSON(ingest.file.features, ingest.file.name, uuid))
          ELSE Rejected(ingest)
    /\ uuid' = IF ingest.file.valid THEN uuid + 1 ELSE uuid
    /\ UNCHANGED <<dataset, loaded, last, ops, lenientDates, heap, app>>

\* the reader's error event, for which parseGeoJSON registers no handler
GeoReadError ==
    /\ ingest.pc = "reading"
    /\ ingest' = [ingest EXCEPT !.pc = "unread"]
    /\ UNCHANGED <<dataset, loaded, last, ops, uuid, lenientDates, heap, app>>

TypeChange ==
    /\ ~loaded /\ ingest.step = "review" /\ ops < MaxOps
    /\ ingest.tempDataset # NoDataset
    /\ \E colName \in Range(ColumnNames(ingest.tempDataset)),
          newType \in {"string", "number"} :
          /\ ingest' = [ingest EXCEPT !.tempDataset =
                            convertColumnType(@, colName, newType)]
          /\ last' = [op |-> "handleTypeChange", colName |-> colName,
                      newType |-> newType]
    /\ ops' = ops + 1
    /\ UNCHANGED <<dataset, loaded, uuid, lenientDates, heap, app>>

\* finalize, and App's handleDataLoaded behind onDataLoaded
Finalize ==
    /\ ~loaded /\ ingest.step = "review"
    /\ ingest.tempDataset # NoDataset
    /\ dataset' = ingest.tempDataset
    /\ loaded' = TRUE
    /\ app' = handleDataLoaded(app, ingest.tempDataset)
    /\ last' = [op |-> "onDataLoaded", out |-> ingest.tempDataset]
    /\ UNCHANGED <<ops, uuid, lenientDates, heap, ingest>>

NextIngest ==
    \/ HandleFile
    \/ Chunk
    \/ ParserError
    \/ Complete
    \/ Timer
    \/ GeoLoaded
    \/ GeoReadError
    \/ TypeChange
    \/ Finalize

SpecIngest == Init /\ [][NextIngest]_vars

(***************************************************************************)
(* The projection of the Visualizer: drResult, the memoized value that     *)
(* hands rows to calculatePCA. The state of the component is kept in last: *)
(* the rows of its dataset prop, the names of the active numeric columns,  *)
(* activeTab, textEmbeddingCol, and the row sets handed to calculatePCA    *)
(* by the latest computation of drResult.                                  *)
(***************************************************************************)
MAX_POINTS == 1000

\* the row counts of the dataset prop: up to Few rows, and within Few of
\* each multiple of MAX_POINTS up to the MaxFactor-th
Few == 2

MaxFactor == 3

RowCounts ==
    (0..Few) \cup {f * MAX_POINTS + e : f \in 1..MaxFactor, e \in (-Few)..Few}

\* Math.ceil(a / b) for a >= 0 and b > 0
Ceil(a, b) == (a + b - 1) \div b

\* rows.filter((_, i) => i % step === 0) with step = Math.floor(n / MAX_POINTS)
RowsToProcessFloorStep(rows) ==
    IF Len(rows) > MAX_POINTS
    THEN LET step == Len(rows) \div MAX_POINTS
             onStep(i) == i % step = 0
             kept == SelectSeq([i \in 1..Len(rows) |-> i - 1], onStep)
         IN  [j \in 1..Len(kept) |-> rows[kept[j] + 1]]
    ELSE rows

\* rowsToProcess: the rows whose index is a multiple of step when there are
\* more than MAX_POINTS
RowsToProcess(rows) ==
    IF Len(rows) > MAX_POINTS
    THEN LET step == Ceil(Len(rows), MAX_POINTS)
             onStep(i) == i % step = 0
             kept == SelectSeq([i \in 1..Len(rows) |-> i - 1], onStep)
         IN  [j \in 1..Len(kept) |-> rows[kept[j] + 1]]
    ELSE rows

\* the row sets that one computation of drResult hands to calculatePCA;
\* computeTextEmbeddings returns one vector for every row
PcaCalls(rows, numericCols, activeTab, textEmbeddingCol) ==
    IF activeTab # "pca" THEN <<>>
    ELSE IF textEmbeddingCol # <<>>
         THEN <<[i \in 1..Len(rows) |-> NewRow(Get(rows[i], ID))]>>
    ELSE IF Len(numericCols) >= 2 THEN <<RowsToProcess(rows)>>
    ELSE <<>>

Tabs == {"distribution", "pca", "map", "treemap", "matrix", "parallel"}

\* the Visualizer as mounted: activeTab 'distribution', textEmbeddingCol ''
InitVisualizer ==
    /\ lenientDates \in BOOLEAN
    /\ ingest = IdleIngest
    /\ heap = <<>>
    /\ app = MountedApp
    /\ dataset = NoDataset
    /\ loaded = TRUE
    /\ \E n \in RowCounts, numericCols \in {<<>>, <<K>>, <<K, X>>} :
          last = [op |-> "Visualizer", rows |-> [i \in 1..n |-> NewRow(Num(i - 1))],
                  numericCols |-> numericCols, activeTab |-> "distribution",
                  textEmbeddingCol |-> <<>>, calls |-> <<>>]
    /\ ops = 0
    /\ uuid = 1

\* a tab button; no control of the component sets textEmbeddingCol
SetActiveTab ==
    /\ ops < MaxOps
    /\ \E tab \in Tabs \ {last.activeTab} :
          last' = [last EXCEPT !.op = "setActiveTab", !.activeTab = tab]
    /\ ops' = ops + 1
    /\ UNCHANGED <<dataset, loaded, uuid, lenientDates, heap, app, ingest>>

\* the memo recomputes after a change of activeTab
DrResult ==
    /\ last.op \in {"Visualizer", "setActiveTab"}
    /\ last' = [last EXCEPT !.op = "drResult",
                   !.calls = PcaCalls(last.rows, last.numericCols, last.activeTab,
                                      last.textEmbeddingCol)]
    /\ UNCHANGED <<dataset, loaded, ops, uuid, lenientDates, heap, app, ingest>>

NextVisualizer ==
    \/ SetActiveTab
    \/ DrResult

SpecVisualizer == InitVisualizer /\ [][NextVisualizer]_vars

(***************************************************************************)
(* The App component: the list of datasets, the active one and the view,   *)
(* under data loads, snapshots, selections and the updates that the        *)
(* Workspace and its DataGrid hand to onUpdateDataset. Each action keeps   *)
(* in last the App state it started from and, for an update, the Dataset   *)
(* handed to onUpdateDataset.                                              *)
(***************************************************************************)
\* number of files loaded into one App
MaxDatasets == 2

\* DataIngest's finalize hands its parsed Dataset to handleDataLoaded;
\* DataIngest is rendered in the UPLOAD view only and mounts anew each time
DataLoaded ==
    /\ app.view = "UPLOAD"
    /\ Len(app.datasets) < MaxDatasets
    /\ \E file \in SecondaryFiles :
          LET data == parseCSV(file, PrimaryName, uuid)
          IN  /\ app' = handleDataLoaded(app, data)
              /\ last' = [op |-> "handleDataLoaded", before |-> app, data |-> data]
    /\ uuid' = uuid + 1
    /\ UNCHANGED <<dataset, loaded, ops, lenientDates, heap, ingest>>

\* NavItem: onClick={() => setView(id)}, disabled={!activeDataset}
SetView ==
    /\ FindActive(app) # <<>>
    /\ \E id \in {"UPLOAD", "WORKSPACE", "VISUALIZE"} :
          /\ app' = [app EXCEPT !.view = id]
          /\ last' = [op |-> "setView", before |-> app]
    /\ UNCHANGED <<dataset, loaded, ops, uuid, lenientDates, heap, ingest>>

\* the sidebar's dataset buttons: onClick={() => setActiveDatasetId(d.id)}
SelectDataset ==
    /\ \E i \in 1..Len(app.datasets) :
          /\ app' = [app EXCEPT !.activeDatasetId = app.datasets[i].id]
          /\ last' = [op |-> "setActiveDatasetId", before |-> app]
    /\ UNCHANGED <<dataset, loaded, ops, uuid, lenientDates, heap, ingest>>

\* the snapshot button is rendered only when there is an active dataset
CreateSnapshot ==
    /\ ops < MaxOps
    /\ FindActive(app) # <<>>
    /\ app' = createSnapshot(app, uuid)
    /\ last' = [op |-> "createSnapshot", before |-> app]
    /\ ops' = ops + 1
    /\ uuid' = uuid + 1
    /\ UNCHANGED <<dataset, loaded, lenientDates, heap, ingest>>

\* the Workspace is rendered when view === ViewState.WORKSPACE && activeDataset
WorkspaceShown == app.view = "WORKSPACE" /\ FindActive(app) # <<>>

\* the kinds picked in the transformation form: one that the switch of
\* applyTransformation handles and one that it does not
FormKinds == {"to_uppercase", "group_count"}

\* Workspace's handleApplyTransform
HandleApplyTransform ==
    /\ ops < MaxOps
    /\ WorkspaceShown
    /\ \E config \in {c \in Configs(Head(FindActive(app))) : c.type \in FormKinds} :
          LET newData == applyTransformation(Head(FindActive(app)), config)
          IN  /\ ExactColumn(Head(FindActive(app)), config.targetCol)
              /\ app' = updateActiveDataset(app, newData)
              /\ last' = [op |-> "handleApplyTransform", before |-> app,
                          handed |-> newData]
    /\ ops' = ops + 1
    /\ UNCHANGED <<dataset, loaded, uuid, lenientDates, heap, ingest>>

\* DataGrid's handleTranspose
HandleTranspose ==
    /\ ops < MaxOps
    /\ WorkspaceShown
    /\ LET newData == transposeDataset(Head(FindActive(app)))
       IN  /\ app' = updateActiveDataset(app, newData)
           /\ last' = [op |-> "handleTranspose", before |-> app, handed |-> newData]
    /\ ops' = ops + 1
    /\ UNCHANGED <<dataset, loaded, uuid, lenientDates, heap, ingest>>

\* DataGrid's handleSetHeader, confirmed: index is the position of a row
HandleSetHeader ==
    /\ ops < MaxOps
    /\ WorkspaceShown
    /\ \E index \in 0..(Len(Head(FindActive(app)).rows) - 1) :
          LET newData == setHeaderRow(Head(FindActive(app)), index)
          IN  /\ app' = updateActiveDataset(app, newData)
              /\ last' = [op |-> "handleSetHeader", before |-> app,
                          handed |-> newData]
    /\ ops' = ops + 1
    /\ UNCHANGED <<dataset, loaded, uuid, lenientDates, heap, ingest>>

\* Workspace's handleBind, confirmed: secondary is found in availableDatasets
\* by the identity picked among availableDatasets.filter(d => d.id !==
\* dataset.id), the keys are names picked from the columns of the two datasets
HandleBind ==
    /\ ops < MaxOps
    /\ WorkspaceShown
    /\ \E i \in 1..Len(app.datasets) :
          LET primary == Head(FindActive(app))
              secondary == app.datasets[i]
          IN  \E primaryKey \in Range(ColumnNames(primary)),
                 secondaryKey \in Range(ColumnNames(secondary)) :
                 LET merged == joinDatasets(primary, secondary, primaryKey,
                                            secondaryKey, uuid)
                 IN  /\ secondary.id # primary.id
                     /\ app' = updateActiveDataset(app, merged)
                     /\ last' = [op |-> "handleBind", before |-> app,
                                 handed |-> merged]
    /\ ops' = ops + 1
    /\ uuid' = uuid + 1
    /\ UNCHANGED <<dataset, loaded, lenientDates, heap, ingest>>

NextApp ==
    \/ DataLoaded
    \/ SetView
    \/ SelectDataset
    \/ CreateSnapshot
    \/ HandleApplyTransform
    \/ HandleTranspose
    \/ HandleSetHeader
    \/ HandleBind

SpecApp == Init /\ [][NextApp]_vars

(***************************************************************************)
(* The pipeline after an ingestion: sequences of cropDataset, setHeaderRow,*)
(* applyTransformation, createCalculatedColumn, convertColumnType and      *)
(* joinDatasets, each applied to the Dataset the one before returned. app  *)
(* keeps the Dataset as the ingestion delivered it to handleDataLoaded.    *)
(***************************************************************************)
\* the files of the pipeline: the secondary files and the scenario file,
\* whose two leading lines the ingestion drops
PipelineFiles == SecondaryFiles \cup {ScenarioFile}

\* formulas over the column x: one that compiles and one that does not
PipelineFormulas == {<<"x", " ", "*", " ", "2">>, <<"x", " ", "*">>}

InitPipeline ==
    /\ lenientDates \in BOOLEAN
    /\ ingest = IdleIngest
    /\ heap = <<>>
    /\ \E file \in PipelineFiles : dataset = parseCSV(file, PrimaryName, 1)
    /\ app = handleDataLoaded(MountedApp, dataset)
    /\ loaded = TRUE
    /\ last = [op |-> "parseCSV", out |-> dataset]
    /\ ops = 0
    /\ uuid = 2

\* createCalculatedColumn: a call that throws leaves the dataset in place
Calculate ==
    /\ loaded /\ ops < MaxOps
    /\ \E formula \in PipelineFormulas :
          LET call == createCalculatedColumn(dataset, Total, formula)
          IN  /\ dataset' = IF call.threw THEN dataset ELSE call.out
              /\ last' = [op |-> "createCalculatedColumn", formula |-> formula,
                          in |-> dataset, out |-> dataset', threw |-> call.threw]
    /\ ops' = ops + 1
    /\ UNCHANGED <<loaded, uuid, lenientDates, heap, app, ingest>>

Convert ==
    /\ loaded /\ ops < MaxOps
    /\ \E colName \in Range(ColumnNames(dataset)), targetType \in {"string", "number"} :
          /\ dataset' = convertColumnType(dataset, colName, targetType)
          /\ last' = [op |-> "convertColumnType", colName |-> colName,
                      targetType |-> targetType, in |-> dataset, out |-> dataset',
                      threw |-> FALSE]
    /\ ops' = ops + 1
    /\ UNCHANGED <<loaded, uuid, lenientDates, heap, app, ingest>>

NextPipeline ==
    \/ Crop
    \/ SetHeader
    \/ Transform
    \/ Calculate
    \/ Convert
    \/ Join

SpecPipeline == InitPipeline /\ [][NextPipeline]_vars

(***************************************************************************)
(* The objects behind the Datasets. heap is the sequence of the cells      *)
(* allocated so far, the address of a cell its position: a row object, a   *)
(* ColumnMetadata object, a stats object, an array (the sequence of the    *)
(* addresses of its elements) or a Dataset object (with the addresses of   *)
(* its rows array, columns array and stats object). An operation allocates *)
(* the objects that its code creates with a literal, a spread, a map or a  *)
(* slice, writes where its code assigns, and shares what its code passes   *)
(* on by reference.                                                        *)
(***************************************************************************)
\* F of the value of x, with x evaluated once
Bind(x, F(_)) == CHOOSE r \in {F(v) : v \in {x}} : TRUE

\* a literal: a new object
Alloc(h, cell) == [heap |-> Append(h, cell), at |-> Len(h) + 1]

\* a spread that hands back the object it was given
SpreadInPlace(h, a) == [heap |-> h, at |-> a]

\* { ...object }: a new object with the fields of the one at address a
Spread(h, a) == Alloc(h, h[a])

\* the assignments to the fields of the object at address a, after which it
\* holds cell
WriteCell(h, a, cell) == [h EXCEPT ![a] = cell]

\* the objects of an array literal and the array itself
StoreArray(h, cells) ==
    Alloc(h \o cells, [i \in 1..Len(cells) |-> Len(h) + i])

\* the objects of a Dataset as an ingestion builds them
Store(h, d) ==
    Bind(StoreArray(h, d.rows), LAMBDA rows :
    Bind(StoreArray(rows.heap, d.columns), LAMBDA columns :
    Bind(Alloc(columns.heap, d.stats), LAMBDA stats :
        Alloc(stats.heap, [d EXCEPT !.rows = rows.at, !.columns = columns.at,
                                    !.stats = stats.at]))))

\* the Dataset read through the object at address a
Value(h, a) ==
    [h[a] EXCEPT !.rows = [i \in 1..Len(h[h[a].rows]) |-> h[h[h[a].rows][i]]],
                 !.columns = [i \in 1..Len(h[h[a].columns]) |-> h[h[h[a].columns][i]]],
                 !.stats = h[h[a].stats]]

\* where an element of a result comes from: the object at address from passed
\* on as it is (Same), a spread of it that is then assigned to (Copied), a new
\* literal that is assigned to (Fresh), a spread of a new literal (CopiedFresh)
Same(a) == [from |-> a, literal |-> <<>>, spread |-> FALSE, value |-> <<>>]

Copied(a, value) == [from |-> a, literal |-> <<>>, spread |-> TRUE, value |-> value]

Fresh(literal, value) == [from |-> 0, literal |-> literal, spread |-> FALSE, value |-> value]

CopiedFresh(literal, value) ==
    [from |-> 0, literal |-> literal, spread |-> TRUE, value |-> value]

\* the object that an element starts from: a new literal or the one at from
Base(h, o) ==
    IF o.from = 0 THEN Alloc(h, o.literal) ELSE [heap |-> h, at |-> o.from]

\* the object that the element is: a spread of base or base itself
Target(base, o) == IF o.spread THEN Spread(base.heap, base.at) ELSE base

\* the assignments to the element, none to an object passed on as it is
Written(target, o) ==
    IF o.spread \/ o.from = 0
    THEN [heap |-> WriteCell(target.heap, target.at, o.value), at |-> target.at]
    ELSE target

\* the object that one element of a result is
Place(h, o) ==
    Bind(Base(h, o), LAMBDA base : Bind(Target(base, o), LAMBDA target : Written(target, o)))

\* the callback of a map, run on the elements from position i on
RECURSIVE PlaceAll(_, _, _, _)
PlaceAll(h, origins, i, made) ==
    IF i > Len(origins) THEN [heap |-> h, at |-> made]
    ELSE Bind(Place(h, origins[i]),
              LAMBDA placed : PlaceAll(placed.heap, origins, i + 1,
                                       Append(made, placed.at)))

\* the array that a map returns
PlaceArray(h, origins) ==
    Bind(PlaceAll(h, origins, 1, <<>>), LAMBDA placed : Alloc(placed.heap, placed.at))

\* every element of the result a new literal
AllFresh(values) == [i \in 1..Len(values) |-> Fresh(<<>>, values[i])]

\* every element of the result a spread of the element at the same position
AllCopied(addresses, values) ==
    [i \in 1..Len(values) |-> Copied(addresses[i], values[i])]

\* where the rows of the result come from: rowsIn the addresses of the rows
\* of the primary Dataset v, out the Dataset returned
RowOrigins(h, rowsIn, v, w, step, out) ==
    CASE step.op \in {"createCalculatedColumn", "convertColumnType", "handleRenameCol"} ->
            AllCopied(rowsIn, out.rows)
      [] step.op = "applyTransformation" ->
            IF step.config.type \in HandledTypes
            THEN AllCopied(rowsIn, out.rows)
            ELSE [i \in 1..Len(rowsIn) |-> Same(rowsIn[i])]
      [] step.op = "joinDatasets" ->
            [i \in 1..Len(rowsIn) |->
                IF IndexGet(w, step.secondaryKey,
                            String(Get(v.rows[i], step.primaryKey))) # <<>>
                THEN Copied(rowsIn[i], out.rows[i])
                ELSE Same(rowsIn[i])]
      [] step.op \in {"transposeDataset", "setHeaderRow"} -> AllFresh(out.rows)
      [] step.op = "cropDataset" ->
            [i \in 1..Len(out.rows) |->
                IF Len(step.columnsToKeep) > 0
                THEN CopiedFresh(
                        PruneFrom(NewRow(Get(h[Slice(rowsIn, step.startRow,
                                                     step.endRow + 1)[i]], ID)),
                                  h[Slice(rowsIn, step.startRow, step.endRow + 1)[i]],
                                  step.columnsToKeep, 1),
                        out.rows[i])
                ELSE Copied(Slice(rowsIn, step.startRow, step.endRow + 1)[i],
                            out.rows[i])]

\* where the ColumnMetadata objects of the result come from: analyzeColumns
\* makes new ones, a rename spreads the renamed one and passes the others on
ColumnOrigins(columnsIn, v, step, out) ==
    IF step.op = "handleRenameCol"
    THEN [i \in 1..Len(columnsIn) |->
             IF v.columns[i].name = step.oldName
             THEN Copied(columnsIn[i], out.columns[i])
             ELSE Same(columnsIn[i])]
    ELSE AllFresh(out.columns)

\* where the stats object of the result comes from: a spread of the one of
\* the primary Dataset, or that one itself
StatsOrigin(statsIn, step, out) ==
    IF step.op \in {"createCalculatedColumn", "convertColumnType", "handleRenameCol"}
    THEN Same(statsIn)
    ELSE Copied(statsIn, out.stats)

\* what a call returns and where its parts come from; self: the call
\* returns its argument, as setHeaderRow does for a rowIndex out of range
Origins(h, d, v, w, step, out) ==
    [out |-> out,
     self |-> step.op = "setHeaderRow"
                 /\ (step.rowIndex < 0 \/ step.rowIndex >= Len(v.rows)),
     rows |-> RowOrigins(h, h[h[d].rows], v, w, step, out),
     columns |-> ColumnOrigins(h[h[d].columns], v, step, out),
     stats |-> StatsOrigin(h[d].stats, step, out)]

Plan(h, d, s, step, out) ==
    Bind(Value(h, d), LAMBDA v :
    Bind(Value(h, s), LAMBDA w : Origins(h, d, v, w, step, out)))

\* the call on the Dataset object at address d that returns the Dataset out,
\* s the address of the secondary Dataset object: the new arrays of rows and
\* columns, the stats object, and { ...dataset, rows, columns, stats }, the
\* spread of the Dataset object with its assignments
Call(h, d, s, step, out) ==
    Bind(Plan(h, d, s, step, out), LAMBDA plan :
        IF plan.self THEN [heap |-> h, at |-> d]
        ELSE
    Bind(PlaceArray(h, plan.rows), LAMBDA rowsArray :
    Bind(PlaceArray(rowsArray.heap, plan.columns), LAMBDA columnsArray :
    Bind(Place(columnsArray.heap, plan.stats), LAMBDA stats :
    Bind(Spread(stats.heap, d), LAMBDA returned :
        [heap |-> WriteCell(returned.heap, returned.at,
                            [plan.out EXCEPT !.rows = rowsArray.at,
                                             !.columns = columnsArray.at,
                                             !.stats = stats.at]),
         at |-> returned.at])))))

\* two ingested files: the primary Dataset and the secondary one of a join
InitHeap ==
    /\ lenientDates \in BOOLEAN
    /\ ingest = IdleIngest
    /\ app = MountedApp
    /\ \E file \in PipelineFiles, other \in SecondaryFiles :
          \E primary \in {Store(<<>>, parseCSV(file, PrimaryName, 1))} :
          \E secondary \in {Store(primary.heap, parseCSV(other, SecondaryName, 2))} :
              /\ heap = secondary.heap
              /\ dataset = Value(heap, primary.at)
              /\ last = [op |-> "parseCSV", before |-> <<>>, in |-> 0,
                         primary |-> primary.at, secondary |-> secondary.at,
                         out |-> primary.at]
    /\ loaded = TRUE
    /\ ops = 0
    /\ uuid = 3

\* the state after a call: the heap it left and the Dataset it returned
Called(step, call) ==
    /\ heap' = call.heap
    /\ dataset' = Value(call.heap, call.at)
    /\ last' = [op |-> step.op, step |-> step, before |-> heap, in |-> last.out,
                primary |-> last.primary, secondary |-> last.secondary,
                out |-> call.at]

\* one call on the Dataset that the call before returned, out the Dataset
\* that the call returns
Step(step, out) ==
    /\ ops < MaxOps
    /\ \E call \in {Call(heap, last.out, last.secondary, step, out)} : Called(step, call)
    /\ ops' = ops + 1
    /\ UNCHANGED <<loaded, lenientDates, app, ingest>>

HeapTransform ==
    /\ \E config \in {c \in Configs(dataset) : c.type \in FormKinds} :
          /\ ExactColumn(dataset, config.targetCol)
          /\ Step([op |-> "applyTransformation", config |-> config],
                  applyTransformation(dataset, config))
    /\ UNCHANGED uuid

\* a createCalculatedColumn that throws returns nothing
HeapCalculate ==
    /\ \E formula \in PipelineFormulas :
          \E call \in {createCalculatedColumn(dataset, Total, formula)} :
             /\ ~call.threw
             /\ Step([op |-> "createCalculatedColumn", newColName |-> Total,
                      formula |-> formula], call.out)
    /\ UNCHANGED uuid

HeapConvert ==
    /\ \E colName \in Range(ColumnNames(dataset)), targetType \in {"string", "number"} :
          Step([op |-> "convertColumnType", colName |-> colName,
                targetType |-> targetType],
               convertColumnType(dataset, colName, targetType))
    /\ UNCHANGED uuid

HeapJoin ==
    /\ \E secondary \in {Value(heap, last.secondary)} :
       \E primaryKey \in Range(ColumnNames(dataset)),
          secondaryKey \in Range(ColumnNames(secondary)) :
          Step([op |-> "joinDatasets", primaryKey |-> primaryKey,
                secondaryKey |-> secondaryKey],
               joinDatasets(dataset, secondary, primaryKey, secondaryKey, uuid))
    /\ uuid' = uuid + 1

HeapTranspose ==
    /\ Step([op |-> "transposeDataset"], transposeDataset(dataset))
    /\ UNCHANGED uuid

HeapSetHeader ==
    /\ \E rowIndex \in Indices :
          Step([op |-> "setHeaderRow", rowIndex |-> rowIndex],
               setHeaderRow(dataset, rowIndex))
    /\ UNCHANGED uuid

HeapCrop ==
    /\ \E startRow \in Indices, endRow \in Indices,
          columnsToKeep \in {<<>>} \cup {Slice(ColumnNames(dataset), 0, 1)} :
          Step([op |-> "cropDataset", startRow |-> startRow, endRow |-> endRow,
                columnsToKeep |-> columnsToKeep],
               cropDataset(dataset, startRow, endRow, columnsToKeep))
    /\ UNCHANGED uuid

\* handleRenameCol returns early on an empty name and on the old name
HeapRename ==
    /\ \E oldName \in Range(ColumnNames(dataset)),
          newName \in Range(ColumnNames(dataset)) \cup {AbsentName, ID} :
          /\ newName # oldName
          /\ Step([op |-> "handleRenameCol", oldName |-> oldName, newName |-> newName],
                  handleRenameCol(dataset, oldName, newName))
    /\ UNCHANGED uuid

NextHeap ==
    \/ HeapTransform
    \/ HeapCalculate
    \/ HeapConvert
    \/ HeapJoin
    \/ HeapTranspose
    \/ HeapSetHeader
    \/ HeapCrop
    \/ HeapRename

SpecHeap == InitHeap /\ [][NextHeap]_vars

(***************************************************************************)
(* Properties.                                                             *)
(***************************************************************************)
\* the cell of row i (1-based) of d under a name
Cell(d, i, name) == Get(d.rows[i], name)

\* the column names are pairwise distinct
DistinctColumnNames(d) ==
    \A i, j \in 1..Len(d.columns) : d.columns[i].name = d.columns[j].name => i = j

\* out has the columns of in plus exactly one new column, the same number of
\* rows, and in every row the cell of every column of in unchanged
AddsOneColumn(in, out) ==
    /\ Len(out.rows) = Len(in.rows)
    /\ Len(out.columns) = Len(in.columns) + 1
    /\ \E c \in Range(ColumnNames(out)) :
          /\ c \notin Range(ColumnNames(in))
          /\ Range(ColumnNames(out)) = Range(ColumnNames(in)) \cup {c}
    /\ \A i \in 1..Len(in.rows) : \A name \in Range(ColumnNames(in)) :
          i <= Len(out.rows) => Cell(out, i, name) = Cell(in, i, name)

ClosedOperationSet ==
    {"split_count", "split_extract", "extract_regex", "to_uppercase",
     "to_lowercase", "math_add", "math_log"}

\* C1: applyTransformation, for every operation kind of the closed set and
\* every dataset with at least one row, returns the input's columns plus
\* exactly one new column with every existing cell and every row unchanged,
\* also when the same config is applied a second time to the result.
C1_AddsExactlyOneColumn ==
    (/\ last.op = "applyTransformation"
     /\ last.config.type \in ClosedOperationSet
     /\ Len(last.in.rows) >= 1)
    => /\ AddsOneColumn(last.in, last.out)
       /\ AddsOneColumn(last.out, applyTransformation(last.out, last.config))

\* C2: joinDatasets fails with a key error and returns no dataset whenever
\* primaryKey is not a column of primary or secondaryKey is not a column of
\* secondary.
C2_AbsentKeyFails ==
    (/\ last.op = "joinDatasets"
     /\ \/ last.primaryKey \notin Range(ColumnNames(last.in))
        \/ last.secondaryKey \notin Range(ColumnNames(last.secondary)))
    => last.threw

OutOfRange(index, d) == index < 0 \/ index > Len(d.rows) - 1

\* C3: cropDataset with startRow or endRow outside [0, rowCount-1], and
\* setHeaderRow with rowIndex outside [0, rowCount-1], return the input
\* dataset unchanged (same rows, same columns, same stats) and do not throw.
C3_OutOfRangeIsNoOp ==
    /\ (/\ last.op = "cropDataset"
        /\ OutOfRange(last.startRow, last.in) \/ OutOfRange(last.endRow, last.in))
       => (last.out = last.in /\ ~last.threw)
    /\ (last.op = "setHeaderRow" /\ OutOfRange(last.rowIndex, last.in))
       => (last.out = last.in /\ ~last.threw)

\* the names that a transposition is expected to give its columns
AttributeLabel == <<"A", "t", "t", "r", "i", "b", "u", "t", "e">>

RowLabel(i) == <<"R", "o", "w", "_">> \o IntToString(i)

\* C4 as stated: transposeDataset applied twice gives back the column names
\* and the number of rows of d, and every cell holds the original value.
C4_TransposeTwiceIsIdentity ==
    last.op = "transposeDataset"
    => LET d == last.in
           tt == transposeDataset(last.out)
       IN  /\ ColumnNames(tt) = ColumnNames(d)
           /\ Len(tt.rows) = Len(d.rows)
           /\ \A i \in 1..Len(d.rows) : \A name \in Range(ColumnNames(d)) :
                 i <= Len(tt.rows) => Cell(tt, i, name) = Cell(d, i, name)

\* C4 amended: for a dataset d with at least one column, m columns and n
\* rows, transposeDataset applied twice has the columns Attribute, Row_0, ...,
\* Row_(m-1) and n + 1 rows: row 0 holds d's column names, and row i + 1
\* holds, under Row_j, the cell that row i of d has in its column j.
C4_TransposeTwiceShiftsSchema ==
    (last.op = "transposeDataset" /\ Len(last.in.columns) >= 1)
    => LET d == last.in
           m == Len(d.columns)
           tt == transposeDataset(last.out)
       IN  /\ ColumnNames(tt) = <<AttributeLabel>> \o [j \in 1..m |-> RowLabel(j - 1)]
           /\ Len(tt.rows) = Len(d.rows) + 1
           /\ Cell(tt, 1, AttributeLabel) = Str(AttributeLabel)
           /\ \A j \in 1..m : Cell(tt, 1, RowLabel(j - 1)) = Str(d.columns[j].name)
           /\ \A i \in 1..Len(d.rows) :
                 /\ Cell(tt, i + 1, AttributeLabel) = Str(RowLabel(i - 1))
                 /\ \A j \in 1..m :
                       Cell(tt, i + 1, RowLabel(j - 1)) = Cell(d, i, d.columns[j].name)

\* C4 witness: a dataset with two rows and two columns holding a present
\* cell has been transposed
C4_Witness ==
    /\ last.op = "transposeDataset"
    /\ Len(last.in.rows) = 2
    /\ Len(last.in.columns) = 2
    /\ IsPresent(Cell(last.in, 2, last.in.columns[2].name))
    /\ Len(transposeDataset(last.out).rows) = 3

\* C5: in every dataset reachable by ingestion followed by any sequence of
\* operations the column names are pairwise distinct; ingestion and
\* promote-row-to-header keep one column per header cell by suffixing the
\* repeated names.
C5_ColumnNamesDistinct ==
    /\ loaded => DistinctColumnNames(dataset)
    /\ (last.op = "setHeaderRow" /\ ~OutOfRange(last.rowIndex, last.in)
          /\ Len(last.out.rows) >= 1)
       => LET promoted == last.in.rows[last.rowIndex + 1]
              notIdKey(e) == e.k # ID
          IN  Len(last.out.columns) = Len(Filter(promoted, notIdKey))

\* the row identifiers are pairwise distinct
DistinctRowIds(d) ==
    \A i, j \in 1..Len(d.rows) :
        StrictEq(Get(d.rows[i], ID), Get(d.rows[j], ID)) => i = j

\* C6: in every dataset reachable by tabular or geographic ingestion followed
\* by any sequence of operations the row identifiers are pairwise distinct,
\* also with a column or property named 'id'.
C6_RowIdsDistinct == loaded => DistinctRowIds(dataset)

\* the properties of a row other than its identifier, in column position
Positional(row) == LET notIdKey(e) == e.k # ID IN Filter(row, notIdKey)

\* C7: setHeaderRow(d, i) for a valid index i stores, in every remaining row,
\* the value at column position k under the name taken from the promoted
\* row's cell at position k, for every k and every content of that row.
C7_PositionalRemap ==
    (last.op = "setHeaderRow" /\ ~OutOfRange(last.rowIndex, last.in))
    => LET header == Positional(last.in.rows[last.rowIndex + 1])
       IN  /\ Len(last.out.rows) = Len(last.in.rows) - (last.rowIndex + 1)
           /\ \A i \in 1..Len(last.out.rows) :
                 LET old == Positional(last.in.rows[last.rowIndex + 1 + i])
                 IN  \A k \in 1..Len(old) :
                        k <= Len(header)
                        => /\ Has(last.out.rows[i], String(header[k].v))
                           /\ Cell(last.out, i, String(header[k].v)) = old[k].v

\* the raw rows of a file, blank lines included, with their typed cells
RawRows(file) ==
    LET typed(line) == [j \in 1..Len(line) |-> DynamicTyping(line[j])] IN Map(file, typed)

\* the 0-based index, among the first 20 raw rows, of the first row with the
\* largest number of non-empty textual cells
RawHeaderIndex(file) ==
    LET raw == RawRows(file)
        scanned == 1..Min2(HeaderScanRows, Len(raw))
    IN  (CHOOSE i \in scanned :
            /\ \A j \in scanned : NonNullCount(raw[j]) <= NonNullCount(raw[i])
            /\ \A j \in scanned : NonNullCount(raw[j]) = NonNullCount(raw[i]) => i <= j) - 1

\* C8: tabular ingestion takes as header the row, among the first 20 raw
\* rows, with the most non-empty textual cells, and droppedRows is the number
\* of raw rows before it, blank rows included; for the scenario file the
\* header is raw row 2, droppedRows is 2, the columns are Name, Age, City and
\* there are 3 rows.
C8_HeaderRecovery ==
    last.op = "parseCSV"
    => /\ last.out.stats.droppedRows = RawHeaderIndex(last.file)
       /\ last.file = ScenarioFile
          => /\ RawHeaderIndex(last.file) = 2
             /\ last.out.stats.droppedRows = 2
             /\ ColumnNames(last.out) =
                   <<<<"N", "a", "m", "e">>, <<"A", "g", "e">>, <<"C", "i", "t", "y">>>>
             /\ Len(last.out.rows) = 3

\* the secondary rows whose stringified key equals that of the primary row
KeyMatches(pRow, primaryKey, secondary, secondaryKey) ==
    {j \in 1..Len(secondary.rows) :
        String(Get(secondary.rows[j], secondaryKey)) = String(Get(pRow, primaryKey))}

\* C9: joinDatasets is a left-outer join: one output row per primary row, in
\* the primary's order, and a primary row whose stringified key equals no
\* secondary row's stringified key appears with exactly its original fields
\* and values.
C9_LeftOuterJoin ==
    last.op = "joinDatasets"
    => /\ Len(last.out.rows) = Len(last.in.rows)
       /\ \A i \in 1..Len(last.in.rows) :
             i <= Len(last.out.rows)
             => /\ Cell(last.out, i, ID) = Cell(last.in, i, ID)
                /\ KeyMatches(last.in.rows[i], last.primaryKey,
                              last.secondary, last.secondaryKey) = {}
                   => last.out.rows[i] = last.in.rows[i]

\* C9 witness: a join of two rows of which the first found a secondary row
\* and gained a field and the second found none and is unchanged
C9_Witness ==
    /\ last.op = "joinDatasets"
    /\ Len(last.in.rows) = 2
    /\ Len(last.out.rows) = 2
    /\ KeyMatches(last.in.rows[1], last.primaryKey,
                  last.secondary, last.secondaryKey) # {}
    /\ Len(last.out.rows[1]) > Len(last.in.rows[1])
    /\ KeyMatches(last.in.rows[2], last.primaryKey,
                  last.secondary, last.secondaryKey) = {}
    /\ last.out.rows[2] = last.in.rows[2]

\* C10: in the output of joinDatasets every non-key field of the matched
\* secondary row appears in the merged row, under its own name when the
\* primary has no column of that name and otherwise under
\* '<secondary display name>_<field>', and no field value that the primary
\* row already had is changed. Stated for the joins whose two keys are columns.
C10_MergeKeepsPrimaryFields ==
    (/\ last.op = "joinDatasets"
     /\ last.primaryKey \in Range(ColumnNames(last.in))
     /\ last.secondaryKey \in Range(ColumnNames(last.secondary)))
    => \A i \in 1..Len(last.in.rows) :
          LET pRow == last.in.rows[i]
              hits == {j \in KeyMatches(pRow, last.primaryKey,
                                        last.secondary, last.secondaryKey) :
                          String(Get(last.secondary.rows[j], last.secondaryKey)) # <<>>}
          IN  hits # {}
              => LET sRow == last.secondary.rows[CHOOSE j \in hits : \A h \in hits : h <= j]
                     merged == last.out.rows[i]
                 IN  /\ \A e \in Range(sRow) :
                           (e.k # ID /\ e.k # last.secondaryKey)
                           => LET name == IF e.k \in Range(ColumnNames(last.in))
                                          THEN last.secondary.name \o <<"_">> \o e.k
                                          ELSE e.k
                              IN  Has(merged, name) /\ Get(merged, name) = e.v
                     /\ \A e \in Range(pRow) : Get(merged, e.k) = e.v

\* C11: cropDataset(d, startRow, endRow) with startRow > endRow returns a
\* dataset with zero rows, for all integer values of the two bounds.
C11_ReversedBoundsGiveNoRows ==
    (last.op = "cropDataset" /\ last.startRow > last.endRow)
    => Len(last.out.rows) = 0

\* the bounds of the crop lie inside the rows of its input, in order
InRange(l) ==
    /\ 0 <= l.startRow
    /\ l.startRow <= l.endRow
    /\ l.endRow <= Len(l.in.rows) - 1

\* C12: for 0 <= startRow <= endRow <= rowCount-1, cropDataset keeps exactly
\* the rows at positions startRow..endRow, in their order and with their cell
\* values (all of them without a keep list, those of the kept columns with
\* one), renumbers their ids 0..k-1 and adds rowCount - k to droppedRows.
C12_InclusiveSlice ==
    (last.op = "cropDataset" /\ InRange(last))
    => LET k == last.endRow - last.startRow + 1
           from(i) == last.in.rows[last.startRow + i]
       IN  /\ Len(last.out.rows) = k
           /\ \A i \in 1..k :
                 /\ Get(last.out.rows[i], ID) = Num(i - 1)
                 /\ \A c \in Range(Keys(last.out.rows[i])) \ {ID} :
                       /\ Has(from(i), c)
                       /\ Get(last.out.rows[i], c) = Get(from(i), c)
                 /\ \A c \in Range(Keys(from(i))) \ {ID} :
                       (last.columnsToKeep = <<>> \/ c \in Range(last.columnsToKeep))
                       => Has(last.out.rows[i], c)
           /\ last.out.stats.droppedRows
                 = last.in.stats.droppedRows + (Len(last.in.rows) - k)

\* a crop that drops a row before and a row after the one it keeps
C12_Witness ==
    /\ last.op = "cropDataset"
    /\ last.startRow = 1 /\ last.endRow = 1
    /\ Len(last.in.rows) = 3
    /\ Len(last.out.rows) = 1
    /\ Len(last.out.columns) >= 2
    /\ last.out.stats.droppedRows = last.in.stats.droppedRows + 2

\* the values of the rows under a column name, and the non-missing ones
ValuesOf(rows, name) == [i \in 1..Len(rows) |-> Get(rows[i], name)]

IsMissing(v) == v = Null \/ v = Undefined \/ v = Str(<<>>)

Present(rows, name) == LET kept(v) == ~IsMissing(v) IN SelectSeq(ValuesOf(rows, name), kept)

\* C13: analyzeColumns gives a column the type number if and only if every
\* non-missing value is a number; otherwise date if and only if every
\* non-missing value parses as a date; otherwise string; also for a column
\* with no non-missing value.
C13_StrictTypeRule ==
    last.op = "analyzeColumns"
    => \A j \in 1..Len(last.out) :
          LET c == last.out[j]
              present == Present(last.rows, c.name)
              allNumbers == \A i \in 1..Len(present) : TypeOf(present[i]) = "number"
              allDates == \A i \in 1..Len(present) : ParsesAsDate(present[i])
          IN  /\ c.type = "number" <=> allNumbers
              /\ ~allNumbers => (c.type = "date" <=> allDates)
              /\ (~allNumbers /\ ~allDates) => c.type = "string"

\* the number of distinct texts that the values of a sequence stringify to
DistinctTexts(values) == Cardinality({String(values[i]) : i \in 1..Len(values)})

\* C14: analyzeColumns counts as missing exactly the null, undefined and
\* empty-text values, sets uniqueCount to the number of distinct stringified
\* values with the missing values contributing one representation, and takes
\* min, max and mean over the non-missing values only; the values
\* [1, 2, null, 4] give missingCount 1, uniqueCount 4 and mean 7/3.
C14_MissingAndUnique ==
    last.op = "analyzeColumns"
    => /\ \A j \in 1..Len(last.out) :
             LET c == last.out[j]
                 values == ValuesOf(last.rows, c.name)
                 present == Present(last.rows, c.name)
             IN  /\ c.missingCount = Len(values) - Len(present)
                 /\ c.uniqueCount = DistinctTexts(present)
                                       + (IF Len(present) < Len(values) THEN 1 ELSE 0)
                 /\ (c.type = "number" /\ Len(present) > 0)
                    => /\ c.min \in Range(present)
                       /\ c.max \in Range(present)
                       /\ \A i \in 1..Len(present) :
                             c.min.n <= present[i].n /\ present[i].n <= c.max.n
                       /\ c.mean.num * Len(present) = Sum(present) * c.mean.den
       /\ last.rows = ColumnRows(<<Num(1), Num(2), Null, Num(4)>>)
          => /\ last.out[1].missingCount = 1
             /\ last.out[1].uniqueCount = 4
             /\ last.out[1].mean = [t |-> "ratio", num |-> 7, den |-> 3]

\* the columns of the input that the formula text contains
UsedColumns(l) ==
    LET used(name) == Includes(l.formula, name) IN SelectSeq(ColumnNames(l.in), used)

\* C15: when the formula does not compile, createCalculatedColumn raises an
\* error before any row is evaluated and returns no dataset, leaving the
\* input dataset unchanged.
C15_CompileFailureFailsFast ==
    (last.op = "createCalculatedColumn" /\ ~Compiles(UsedColumns(last), last.formula))
    => /\ last.threw
       /\ last.evaluated = 0
       /\ last.out = NoDataset
       /\ dataset = last.in

\* a formula that does not compile, on a dataset with two rows
C15_Witness ==
    /\ last.op = "createCalculatedColumn"
    /\ Len(last.in.rows) = 2
    /\ ~Compiles(UsedColumns(last), last.formula)
    /\ last.threw

\* the cell is a number or text that reads as a number
IsNumeric(v) == Number(v).t = "number" /\ v.t \in {"number", "string"} /\ v # Str(<<>>)

\* the value the formula is claimed to get for a referenced cell
ClaimedArg(v) == IF IsNumeric(v) THEN Number(v) ELSE Num(0)

\* C16: once the formula has compiled, createCalculatedColumn never throws
\* and returns one output row per input row; a referenced cell that is not
\* numeric is passed to the formula as 0, and a row whose evaluation throws
\* or yields NaN gets 0 in the new column; 'Price * Quantity' over
\* {Price:10, Quantity:2} and {Price:'bad', Quantity:3} gives 20 and 0.
C16_RowFailuresGiveZero ==
    (last.op = "createCalculatedColumn" /\ Compiles(UsedColumns(last), last.formula))
    => /\ ~last.threw
       /\ Len(last.out.rows) = Len(last.in.rows)
       /\ \A i \in 1..Len(last.in.rows) :
             LET row == last.in.rows[i]
                 used == UsedColumns(last)
                 env == [j \in 1..Len(used) |->
                            [k |-> used[j], v |-> ClaimedArg(Get(row, used[j]))]]
                 result == Body(last.formula, env).val
             IN  Get(last.out.rows[i], last.newColName)
                    = IF result = Throws \/ IsNaN(result) THEN Num(0) ELSE result
       /\ (/\ last.formula = Price \o <<" ", "*", " ">> \o Quantity
           /\ Len(last.in.rows) = 2
           /\ Get(last.in.rows[1], Price) = Num(10)
           /\ Get(last.in.rows[1], Quantity) = Num(2)
           /\ Get(last.in.rows[2], Price) = Str(<<"b", "a", "d">>)
           /\ Get(last.in.rows[2], Quantity) = Num(3)
           /\ last.newColName = Total)
          => /\ Get(last.out.rows[1], Total) = Num(20)
             /\ Get(last.out.rows[2], Total) = Num(0)

\* the names of the active numeric columns, in metadata order
ActiveNumeric(d) ==
    LET numeric(c) == c.type = "number" /\ c.isActive
        selected == SelectSeq(d.columns, numeric)
    IN  [i \in 1..Len(selected) |-> selected[i].name]

\* C17: for a dataset with at least 2 active numeric columns,
\* calculateCorrelationMatrix returns those n column names in metadata order
\* and an n x n matrix with 1 on the diagonal and the same value at [i][j]
\* and [j][i]; with fewer than 2 such columns it returns the empty result
\* without throwing.
C17_SquareSymmetricUnitDiagonal ==
    last.op = "calculateCorrelationMatrix"
    => LET names == ActiveNumeric(last.in)
           n == Len(names)
           m == last.out.matrix
       IN  /\ ~last.threw
           /\ n < 2 => last.out = [cols |-> <<>>, matrix |-> <<>>]
           /\ n >= 2
              => /\ last.out.cols = names
                 /\ Len(m) = n
                 /\ \A i \in 1..n :
                       /\ Len(m[i]) = n
                       /\ m[i][i] = Num(1)
                       /\ \A j \in 1..n : m[i][j] = m[j][i]

\* a matrix of three columns with a coefficient that is neither 0 nor 1
C17_Witness ==
    /\ last.op = "calculateCorrelationMatrix"
    /\ Len(last.out.cols) = 3
    /\ last.out.matrix[1][2].t = "quotient"
    /\ last.out.matrix[2][1].t = "quotient"

\* the value is NaN or infinite (a term the model leaves unevaluated is a
\* number whose finiteness it does not decide)
NotFinite(v) == v.t \in {"NaN", "-Infinity"}

\* C18: every coefficient returned by calculateCorrelationMatrix is a finite
\* number; when either column of a pair has zero variance the coefficient
\* is 0, never NaN or Infinity.
C18_CoefficientsFinite ==
    last.op = "calculateCorrelationMatrix"
    => \A i \in 1..Len(last.out.matrix) : \A j \in 1..Len(last.out.matrix[i]) :
          ~NotFinite(last.out.matrix[i][j])

\* a sequence of progress values that never decreases
NonDecreasing(values) == \A i \in 1..(Len(values) - 1) : values[i] <= values[i + 1]

\* C19: during one ingestion neither the values that parseCSV passes to its
\* progress callback nor the values that DataIngest's progress state takes
\* from the start of handleFile ever decrease, and both have reached 100 when
\* the Dataset is delivered.
C19_ProgressNeverDecreases ==
    /\ NonDecreasing(ingest.reported)
    /\ NonDecreasing(ingest.shown)
    /\ ingest.outcome = "success" =>
          /\ ingest.shown[Len(ingest.shown)] = 100
          /\ ingest.file.name = CsvName =>
                ingest.reported # <<>> /\ ingest.reported[Len(ingest.reported)] = 100

\* the Dataset of the whole file, as one call on all of its rows builds it
WholeParse(g) ==
    IF g.file.name = CsvName
    THEN parseCSV(g.file.lines, g.file.name, g.resolved.id)
    ELSE parseGeoJSON(g.file.features, g.file.name, g.resolved.id)

\* the ingestion has settled at most once; a success came after the parser
\* had consumed the whole file, with the Dataset of the whole file
SettlesWithWholeDataset ==
    /\ ingest.settled <= 1
    /\ ingest.settled = 1 <=> ingest.outcome \in {"success", "failure"}
    /\ ingest.outcome = "success" =>
          /\ ingest.cursor = Len(ingest.file.lines)
          /\ ingest.resolved = WholeParse(ingest)

\* DataIngest holds a dataset and is in 'review' on success only, is back in
\* 'upload' with none on failure, and hands over the dataset it holds, which
\* has every row of the parsed one
NothingPartialExposed ==
    /\ ingest.step = "review" <=> ingest.outcome = "success"
    /\ ingest.step = "review" <=> ingest.tempDataset # NoDataset
    /\ ingest.step = "review" =>
          Len(ingest.tempDataset.rows) = Len(ingest.resolved.rows)
    /\ ingest.outcome = "failure" => ingest.step = "upload"
    /\ loaded => ingest.step = "review" /\ dataset = ingest.tempDataset

\* while DataIngest shows 'parsing', the parser, the timer or the reader has
\* a callback to come that continues the parse or settles it
ParseStillSettles ==
    ingest.step = "parsing" => ingest.pc \in {"csv", "timer", "reading"}

\* C20: an ingestion completes exactly once, with the complete Dataset built
\* from all chunks after the parser completed, or with a failure; DataIngest
\* holds a dataset and is in 'review' only on success, is in 'upload' with
\* no dataset after a failure, and onDataLoaded gets a complete dataset only.
C20_CompletesOnceNothingPartial ==
    /\ SettlesWithWholeDataset
    /\ NothingPartialExposed
    /\ ParseStillSettles

\* the last step replaced one Dataset by the Dataset that an operation returned
Replaced ==
    last.op \in {"applyTransformation", "joinDatasets", "transposeDataset",
                 "setHeaderRow", "cropDataset", "handleRenameCol", "toggleColumnActive"}

\* C22: along any sequence of operations on an ingested dataset, none of the
\* counters originalRows, totalCells, imputedCells, droppedRows of the stats
\* decreases from a Dataset to the Dataset that replaces it.
C22_CountersNeverDecrease ==
    Replaced =>
        /\ last.in.stats.originalRows <= last.out.stats.originalRows
        /\ last.in.stats.totalCells <= last.out.stats.totalCells
        /\ last.in.stats.imputedCells <= last.out.stats.imputedCells
        /\ last.in.stats.droppedRows <= last.out.stats.droppedRows

\* C25: in every Dataset produced by ingestion or returned by a
\* transformation, a join, a transposition, a crop or a promotion of a row to
\* header, stats.totalCells is rows.length times columns.length.
C25_TotalCellsIsRowsTimesColumns ==
    last.op \in {"parseCSV", "parseGeoJSON", "applyTransformation", "joinDatasets",
                 "transposeDataset", "cropDataset", "setHeaderRow"}
    => last.out.stats.totalCells = Len(last.out.rows) * Len(last.out.columns)

\* C26: after a join in which a primary row matches a secondary row, the
\* column metadata of the output has a column for every secondary field,
\* other than id and the key, that was merged into an output row.
C26_MergedFieldsHaveColumns ==
    last.op = "joinDatasets" =>
        \A i \in 1..Len(last.in.rows) :
            LET pKey == String(Get(last.in.rows[i], last.primaryKey))
                sRow == IndexGet(last.secondary, last.secondaryKey, pKey)
            IN  sRow # <<>> =>
                  \A j \in 1..Len(sRow[1]) :
                      LET k == sRow[1][j].k
                      IN  (k # ID /\ k # last.secondaryKey) =>
                            FinalKey(last.in, last.secondary, k)
                                \in Range(ColumnNames(last.out))

\* C27: a column that is inactive in the input of applyTransformation,
\* cropDataset or joinDatasets, and that the returned Dataset keeps, is
\* inactive in the returned Dataset.
C27_InactiveStaysInactive ==
    last.op \in {"applyTransformation", "cropDataset", "joinDatasets"} =>
        \A i \in 1..Len(last.in.columns), j \in 1..Len(last.out.columns) :
            (/\ ~last.in.columns[i].isActive
             /\ last.out.columns[j].name = last.in.columns[i].name)
            => ~last.out.columns[j].isActive

\* C29: a primary row whose key value is null, undefined or the empty text
\* is in the output of joinDatasets as it was, without any secondary field.
C29_MissingKeyNeverMatches ==
    last.op = "joinDatasets" =>
        \A i \in 1..Len(last.in.rows) :
            Get(last.in.rows[i], last.primaryKey) \in {Null, Undefined, Str(<<>>)}
            => last.out.rows[i] = last.in.rows[i]

\* C23: every row set that the Visualizer hands to calculatePCA has at most
\* MAX_POINTS rows; of n > MAX_POINTS rows it is exactly the rows whose index
\* is a multiple of step = ceil(n / MAX_POINTS), in their order, row 0 first.
C23_PcaGetsAtMostCapRows ==
    last.op = "drResult" =>
        \A c \in 1..Len(last.calls) :
            LET passed == last.calls[c]
                n == Len(last.rows)
                step == Ceil(n, MAX_POINTS)
            IN  /\ Len(passed) <= MAX_POINTS
                /\ n <= MAX_POINTS => passed = last.rows
                /\ n > MAX_POINTS =>
                      /\ Len(passed) = Ceil(n, step)
                      /\ \A j \in 1..Len(passed) :
                            passed[j] = last.rows[(j - 1) * step + 1]

C23_Witness ==
    /\ last.op = "drResult"
    /\ Len(last.rows) = 2 * MAX_POINTS + 1
    /\ Len(last.calls) = 1
    /\ Len(last.calls[1]) = 667

\* the handlers that hand a Dataset to onUpdateDataset
UpdateOps == {"handleApplyTransform", "handleTranspose", "handleSetHeader", "handleBind"}

\* C24: every Dataset handed to onUpdateDataset (after a transformation, a
\* transpose, a promotion of a row to header, a confirmed merge) is the value
\* of the active dataset afterwards; after handleBind the active dataset is
\* the merged dataset
C24_HandedDatasetBecomesActive ==
    last.op \in UpdateOps => FindActive(app) = <<last.handed>>

\* the active identity names no dataset of the list or exactly one
OneActive ==
    \/ app.activeDatasetId = 0
    \/ Cardinality({i \in 1..Len(app.datasets) :
                       app.datasets[i].id = app.activeDatasetId}) = 1

\* an update keeps the length of the list and every entry of another identity
UpdateTouchesSameIdOnly ==
    last.op \in UpdateOps =>
        /\ Len(app.datasets) = Len(last.before.datasets)
        /\ \A i \in 1..Len(last.before.datasets) :
              last.before.datasets[i].id # last.handed.id
                  => app.datasets[i] = last.before.datasets[i]

\* C30: after any interleaving of loads, snapshots, selections and updates,
\* activeDatasetId is null or the id of exactly one dataset of the list, and
\* an update changes only the entry with the updated Dataset's id and never
\* the length of the list
C30_ActiveIdNamesOneDataset ==
    OneActive /\ UpdateTouchesSameIdOnly

\* an update replaced the active one of three datasets, a loaded file, its
\* snapshot and a second file, after the first one was selected again
C30_Witness ==
    /\ last.op = "handleApplyTransform"
    /\ Len(app.datasets) = 3
    /\ app.activeDatasetId = app.datasets[1].id
    /\ app.datasets[1] = last.handed
    /\ app.datasets[1] # last.before.datasets[1]
    /\ app.datasets[2] = last.before.datasets[2]
    /\ app.datasets[3] = last.before.datasets[3]

\* rows.length + stats.droppedRows
RowsAccounted(d) == Len(d.rows) + d.stats.droppedRows

\* C28: over sequences of cropDataset, setHeaderRow, applyTransformation,
\* createCalculatedColumn, convertColumnType and joinDatasets,
\* rows.length + stats.droppedRows keeps the value it had after the ingestion
C28_RowsPlusDroppedKept ==
    RowsAccounted(dataset) = RowsAccounted(app.datasets[1])

\* two operations that both dropped rows: a crop, then a promotion to header
C28_Witness ==
    /\ ops = 2
    /\ last.op = "setHeaderRow"
    /\ Len(last.out.rows) < Len(last.in.rows)
    /\ Len(last.in.rows) < Len(app.datasets[1].rows)
    /\ dataset.stats.droppedRows > last.in.stats.droppedRows
    /\ last.in.stats.droppedRows > app.datasets[1].stats.droppedRows

\* the objects that a Dataset object reaches: itself, its arrays of rows and
\* columns, their elements and its stats object
Reach(h, a) ==
    {a, h[a].rows, h[a].columns, h[a].stats}
        \cup Range(h[h[a].rows]) \cup Range(h[h[a].columns])

\* C21: no operation (applyTransformation, createCalculatedColumn,
\* convertColumnType, joinDatasets, transposeDataset, setHeaderRow,
\* cropDataset, column rename) mutates its input: every object that the input
\* Dataset reached before the call, and for a join every object of the
\* secondary Dataset, holds after the call what it held before
C21_InputsNotMutated ==
    last.op # "parseCSV" =>
        /\ \A a \in Reach(last.before, last.in) : heap[a] = last.before[a]
        /\ \A a \in Reach(last.before, last.secondary) : heap[a] = last.before[a]
        /\ Value(heap, last.in) = Value(last.before, last.in)

\* a column rename on the result of a join that matched one row and passed
\* the other on: the result of the rename shares no row with its input, the
\* input shares a row with the primary Dataset of the join
C21_Witness ==
    /\ ops = 2
    /\ last.op = "handleRenameCol"
    /\ Range(heap[heap[last.out].rows]) \cap Range(heap[heap[last.in].rows]) = {}
    /\ Range(heap[heap[last.in].rows]) \cap Range(heap[heap[last.primary].rows]) # {}
    /\ Value(heap, last.out) # Value(heap, last.in)

====
